---- MODULE Spec2Model ----
(***************************************************************************)
(* Freehand curve drawing operator (CURVE_OT_draw) of                      *)
(* source/blender/editors/curve/editcurve_paint.cc as a state machine.     *)
(*                                                                         *)
(* Floats are modelled as exact rationals <<n, d>> (d > 0, lowest terms);  *)
(* a square root that is not rational is rounded down to 1/SqrtRes, the    *)
(* way a float square root is rounded to its precision.                    *)
(*                                                                         *)
(* The host viewport is an orthographic view looking down the world Z      *)
(* axis: pixel (x, y) is the view ray through world (x, y, .), so          *)
(* rv3d->viewinv[2] is (0, 0, 1).                                          *)
(***************************************************************************)
EXTENDS Integers, Sequences, FiniteSets, TLC

\* Bind(v, F) is F(v) with v, a local of the code, evaluated once.
Bind(v, F(_)) == CHOOSE r \in {F(y) : y \in {v}} : TRUE

(* ------------------------------------------------------------------ *)
(* Rational arithmetic (the code's float arithmetic)                   *)
(* ------------------------------------------------------------------ *)

Abs(i) == IF i < 0 THEN -i ELSE i

RECURSIVE GCD(_, _)
GCD(a, b) == IF b = 0 THEN a ELSE GCD(b, a % b)

\* The rational n/d in lowest terms with a positive denominator.
Rat(n, d) ==
    LET s == IF d < 0 THEN -1 ELSE 1
        g == GCD(Abs(n), Abs(d))
    IN  IF n = 0 THEN <<0, 1>> ELSE <<(s * n) \div g, Abs(d) \div g>>

RInt(i) == <<i, 1>>
RZero == <<0, 1>>
ROne == <<1, 1>>
RHalf == <<1, 2>>

RAdd(a, b) == Rat(a[1] * b[2] + b[1] * a[2], a[2] * b[2])
RSub(a, b) == Rat(a[1] * b[2] - b[1] * a[2], a[2] * b[2])
RMul(a, b) == Rat(a[1] * b[1], a[2] * b[2])
RDiv(a, b) == Rat(a[1] * b[2], a[2] * b[1])
RNeg(a) == <<-a[1], a[2]>>
RLt(a, b) == a[1] * b[2] < b[1] * a[2]
RLe(a, b) == a[1] * b[2] <= b[1] * a[2]
RGt(a, b) == RLt(b, a)
RGe(a, b) == RLe(b, a)

\* int(x) of a float: truncation toward zero.
RTrunc(a) == IF a[1] >= 0 THEN a[1] \div a[2] ELSE -((-a[1]) \div a[2])

\* ceil(x) of a float.
RCeil(a) == -((-a[1]) \div a[2])

\* Largest k with k * k <= v, by bisection on lo <= k < hi.
RECURSIVE ISqrtIn(_, _, _)
ISqrtIn(v, lo, hi) ==
    IF hi - lo <= 1 THEN lo
    ELSE LET mid == (lo + hi) \div 2
         IN  IF mid * mid <= v THEN ISqrtIn(v, mid, hi) ELSE ISqrtIn(v, lo, mid)

ISqrt(v) == ISqrtIn(v, 0, IF v < 46340 THEN v + 1 ELSE 46341)

\* ceil(sqrt(a)) of a rational a >= 0: the least k with k * k >= a.
CeilSqrt(a) ==
    IF ISqrt(RCeil(a)) * ISqrt(RCeil(a)) = RCeil(a)
    THEN ISqrt(RCeil(a)) ELSE ISqrt(RCeil(a)) + 1

SqrtRes == 16

\* sqrt(x): exact when x is the square of a rational, else rounded down to a
\* multiple of 1/SqrtRes.
RSqrt(a) ==
    IF ISqrt(a[1]) * ISqrt(a[1]) = a[1] /\ ISqrt(a[2]) * ISqrt(a[2]) = a[2]
    THEN Rat(ISqrt(a[1]), ISqrt(a[2]))
    ELSE Rat(ISqrt((a[1] * SqrtRes * SqrtRes) \div a[2]), SqrtRes)

(* ------------------------------------------------------------------ *)
(* Vectors (BLI_math_vector)                                           *)
(* ------------------------------------------------------------------ *)

V2(x, y) == <<x, y>>
V3(x, y, z) == <<x, y, z>>
Zero3 == <<RZero, RZero, RZero>>
AxisZ == <<RZero, RZero, ROne>>
AxisX == <<ROne, RZero, RZero>>

is_zero_v3(v) == v = Zero3
add_v3(a, b) == <<RAdd(a[1], b[1]), RAdd(a[2], b[2]), RAdd(a[3], b[3])>>
sub_v3(a, b) == <<RSub(a[1], b[1]), RSub(a[2], b[2]), RSub(a[3], b[3])>>
mul_v3_fl(a, f) == <<RMul(a[1], f), RMul(a[2], f), RMul(a[3], f)>>
madd_v3_v3fl(r, a, f) == add_v3(r, mul_v3_fl(a, f))
dot_v3v3(a, b) == RAdd(RAdd(RMul(a[1], b[1]), RMul(a[2], b[2])), RMul(a[3], b[3]))
cross_v3_v3v3(a, b) ==
    <<RSub(RMul(a[2], b[3]), RMul(a[3], b[2])),
      RSub(RMul(a[3], b[1]), RMul(a[1], b[3])),
      RSub(RMul(a[1], b[2]), RMul(a[2], b[1]))>>
len_squared_v3v3(a, b) == dot_v3v3(sub_v3(a, b), sub_v3(a, b))
len_v3v3(a, b) == RSqrt(len_squared_v3v3(a, b))
len_squared_v2v2(a, b) ==
    RAdd(RMul(RSub(a[1], b[1]), RSub(a[1], b[1])), RMul(RSub(a[2], b[2]), RSub(a[2], b[2])))
len_v2v2(a, b) == RSqrt(len_squared_v2v2(a, b))
\* normalize_v3: the zero vector stays zero.
normalize_v3(v) ==
    Bind(RSqrt(dot_v3v3(v, v)),
         LAMBDA len : IF len = RZero THEN Zero3 ELSE mul_v3_fl(v, RDiv(ROne, len)))
\* interpf / interp_v2_v2v2 / interp_v3_v3v3: a + t * (b - a), written as the code does.
interpf(target, origin, t) == RAdd(RMul(t, target), RMul(RSub(ROne, t), origin))
interp_v2_v2v2(a, b, t) == <<interpf(b[1], a[1], t), interpf(b[2], a[2], t)>>
interp_v3_v3v3(a, b, t) ==
    <<interpf(b[1], a[1], t), interpf(b[2], a[2], t), interpf(b[3], a[3], t)>>

(* ------------------------------------------------------------------ *)
(* Program constants                                                   *)
(* ------------------------------------------------------------------ *)

STROKE_SAMPLE_DIST_MIN_PX == 1
STROKE_SAMPLE_DIST_MAX_PX == 3
STROKE_CYCLIC_DIST_PX == 8

square_f(i) == RInt(i * i)

\* float(M_PI), in degrees: only its order against corner angles matters.
M_PI == RInt(180)

\* UI_SCALE_FAC of the host preferences.
UI_SCALE_FAC == ROne

(* ------------------------------------------------------------------ *)
(* Host environment: edited object, viewport, depth snapshot           *)
(* ------------------------------------------------------------------ *)

\* obedit->object_to_world(): a uniform scale and a translation.
ObScale == RInt(2)
ObLoc == <<ROne, RZero, ROne>>

\* mul_v3_m4v3(r, object_to_world, v)
object_to_world(v) == add_v3(mul_v3_fl(v, ObScale), ObLoc)
\* mul_v3_m4v3(r, world_to_object, v), world_to_object = invert_m4_m4(object_to_world)
world_to_object(v) == mul_v3_fl(sub_v3(v, ObLoc), RDiv(ROne, ObScale))
\* mul_transposed_mat3_m4_v3(object_to_world, v)
mul_transposed_mat3_m4_v3(v) == mul_v3_fl(v, ObScale)

\* rv3d->viewinv[2], -rv3d->ofs and scene->cursor.location
ViewZ == AxisZ
ViewCenter == Zero3
CursorLocation == <<RZero, RZero, ROne>>

\* ED_view3d_win_to_3d: the point under mval at the view depth of depth_pt.
ED_view3d_win_to_3d(depth_pt, mval) == <<mval[1], mval[2], depth_pt[3]>>

\* ED_view3d_win_to_3d_on_plane: the view ray through mval meets plane = <<normal, d>>
\* unless the ray is parallel to the plane.
ED_view3d_win_to_3d_on_plane(plane, mval) ==
    IF plane[1][3] = RZero THEN [ok |-> FALSE, co |-> Zero3]
    ELSE [ok |-> TRUE,
          co |-> <<mval[1], mval[2],
                   RDiv(RNeg(RAdd(plane[2], RAdd(RMul(plane[1][1], mval[1]),
                                                 RMul(plane[1][2], mval[2])))),
                        plane[1][3])>>]

\* The depth snapshot (ViewDepths) taken by ED_view3d_depth_override: w, h, the
\* depth of every pixel (1 = nothing drawn there) and the valid depth range.
Depths == [w |-> 9, h |-> 8, depth_range |-> <<RZero, ROne>>]
Tilted == <<Rat(3, 5), RZero, Rat(4, 5)>>

\* ED_view3d_depth_read_cached
DepthAt(mval_i) ==
    IF mval_i[1] \in 0..2 THEN Rat(7, 10)
    ELSE IF mval_i[1] \in 6..8 THEN Rat(1, 2)
    ELSE ROne

\* ED_view3d_depth_unproject_v3: the world point of a pixel at a depth.
ED_view3d_depth_unproject_v3(mval_i, depth) ==
    <<RInt(mval_i[1]), RInt(mval_i[2]), RMul(RInt(10), RSub(ROne, depth))>>

\* ED_view3d_depth_read_cached_normal: the surface normal around a pixel, when the
\* neighbouring depths allow one.
ED_view3d_depth_read_cached_normal(mval_i) ==
    IF mval_i[1] \in 0..1 THEN [ok |-> TRUE, no |-> AxisZ]
    ELSE IF mval_i[1] = 2 THEN [ok |-> TRUE, no |-> AxisX]
    ELSE IF mval_i[1] \in 6..7 THEN [ok |-> TRUE, no |-> Tilted]
    ELSE [ok |-> FALSE, no |-> Zero3]

(* ------------------------------------------------------------------ *)
(* StrokeElem and CurveDrawData                                        *)
(* ------------------------------------------------------------------ *)

\* BLI_mempool_calloc(stroke_elem_pool): a zeroed StrokeElem.
StrokeElemZero ==
    [mval |-> <<RZero, RZero>>,
     location_world |-> Zero3, location_local |-> Zero3,
     normal_world |-> Zero3, normal_local |-> Zero3,
     pressure |-> RZero]

\* MEM_callocN<CurveDrawData>: every field zero.
CurveDrawDataZero ==
    [init_event_type |-> "NONE",
     curve_type |-> "NONE",
     project |-> [use_plane |-> FALSE, plane |-> <<Zero3, RZero>>, use_depth |-> FALSE,
                  use_offset |-> FALSE, offset |-> Zero3, surface_offset |-> RZero,
                  use_surface_offset_absolute |-> FALSE],
     sample |-> [use_substeps |-> FALSE],
     radius |-> [min |-> RZero, max |-> RZero, range |-> RZero],
     prev |-> [mval |-> <<RZero, RZero>>, location_world |-> Zero3,
               location_world_valid |-> Zero3, selem |-> 0],
     depths |-> FALSE,
     state |-> "CURVE_DRAW_IDLE",
     draw_handle_view |-> FALSE]

\* cu->bevel_radius of the edited curve.
BevelRadius == RInt(2)

stroke_elem_radius_from_pressure(cdd, pressure) ==
    RMul(RAdd(RMul(pressure, cdd.radius.range), cdd.radius.min), BevelRadius)

stroke_elem_radius(cdd, selem) == stroke_elem_radius_from_pressure(cdd, selem.pressure)

\* stroke_elem_pressure_set without the test of use_surface_offset_absolute.
stroke_elem_pressure_set_AbsoluteToo(cdd, selem, pressure) ==
    IF cdd.project.surface_offset # RZero /\ ~is_zero_v3(selem.normal_local)
    THEN Bind(madd_v3_v3fl(selem.location_local, selem.normal_local,
                           RSub(stroke_elem_radius_from_pressure(cdd, pressure),
                                stroke_elem_radius_from_pressure(cdd, selem.pressure))),
              LAMBDA local : [selem EXCEPT !.location_local = local,
                                           !.location_world = object_to_world(local),
                                           !.pressure = pressure])
    ELSE [selem EXCEPT !.pressure = pressure]

\* stroke_elem_pressure_set without the mul_v3_m4v3 that refreshes location_world.
stroke_elem_pressure_set_LocalOnly(cdd, selem, pressure) ==
    IF cdd.project.surface_offset # RZero /\ ~cdd.project.use_surface_offset_absolute
       /\ ~is_zero_v3(selem.normal_local)
    THEN [selem EXCEPT
             !.location_local =
                 madd_v3_v3fl(selem.location_local, selem.normal_local,
                              RSub(stroke_elem_radius_from_pressure(cdd, pressure),
                                   stroke_elem_radius_from_pressure(cdd, selem.pressure))),
             !.pressure = pressure]
    ELSE [selem EXCEPT !.pressure = pressure]

stroke_elem_pressure_set(cdd, selem, pressure) ==
    IF cdd.project.surface_offset # RZero /\ ~cdd.project.use_surface_offset_absolute
       /\ ~is_zero_v3(selem.normal_local)
    THEN Bind(madd_v3_v3fl(selem.location_local, selem.normal_local,
                           RSub(stroke_elem_radius_from_pressure(cdd, pressure),
                                stroke_elem_radius_from_pressure(cdd, selem.pressure))),
              LAMBDA local : [selem EXCEPT !.location_local = local,
                                           !.location_world = object_to_world(local),
                                           !.pressure = pressure])
    ELSE [selem EXCEPT !.pressure = pressure]

\* Writes mval, both locations and the pressure of selem_out; its normals stay.
stroke_elem_interp(selem_out, selem_a, selem_b, t) ==
    [selem_out EXCEPT
        !.mval = interp_v2_v2v2(selem_a.mval, selem_b.mval, t),
        !.location_world = interp_v3_v3v3(selem_a.location_world, selem_b.location_world, t),
        !.location_local = interp_v3_v3v3(selem_a.location_local, selem_b.location_local, t),
        !.pressure = interpf(selem_a.pressure, selem_b.pressure, t)]

\* The use_plane branch of stroke_elem_project: [ok, co, no].
ProjectOnPlane(cdd, mval_fl, r_location_world, r_normal_world, has_normal) ==
    Bind(ED_view3d_win_to_3d_on_plane(cdd.project.plane, mval_fl),
         LAMBDA plane :
            IF plane.ok
            THEN [ok |-> TRUE, co |-> plane.co,
                  no |-> IF has_normal THEN Zero3 ELSE r_normal_world]
            ELSE [ok |-> FALSE, co |-> r_location_world, no |-> r_normal_world])

\* The depth branch of stroke_elem_project: [ok, co, no].
ProjectOnDepth(cdd, mval_i, surface_offset, radius, r_location_world, r_normal_world, has_normal) ==
    IF /\ cdd.depths
       /\ mval_i[1] >= 0 /\ mval_i[1] < Depths.w
       /\ mval_i[2] >= 0 /\ mval_i[2] < Depths.h
       /\ RGt(DepthAt(mval_i), Depths.depth_range[1])
       /\ RLt(DepthAt(mval_i), Depths.depth_range[2])
    THEN IF surface_offset # RZero /\ ED_view3d_depth_read_cached_normal(mval_i).ok
         THEN [ok |-> TRUE,
               co |-> madd_v3_v3fl(
                          ED_view3d_depth_unproject_v3(mval_i, DepthAt(mval_i)),
                          ED_view3d_depth_read_cached_normal(mval_i).no,
                          RMul(IF cdd.project.use_surface_offset_absolute
                               THEN ROne ELSE radius,
                               surface_offset)),
               no |-> IF has_normal THEN ED_view3d_depth_read_cached_normal(mval_i).no
                      ELSE r_normal_world]
         ELSE [ok |-> TRUE,
               co |-> ED_view3d_depth_unproject_v3(mval_i, DepthAt(mval_i)),
               no |-> IF has_normal THEN Zero3 ELSE r_normal_world]
    ELSE [ok |-> FALSE, co |-> r_location_world, no |-> r_normal_world]

\* [ok, location_world, normal_world]; r_location_world and r_normal_world are the
\* caller's values on entry, kept where the code does not write them.
\* has_normal is r_normal_world # nullptr.
stroke_elem_project(cdd, mval_i, mval_fl, surface_offset, radius, r_location_world, r_normal_world, has_normal) ==
    Bind(IF cdd.project.use_plane
         THEN ProjectOnPlane(cdd, mval_fl, r_location_world, r_normal_world, has_normal)
         ELSE ProjectOnDepth(cdd, mval_i, surface_offset, radius,
                             r_location_world, r_normal_world, has_normal),
         LAMBDA res :
            [ok |-> res.ok,
             location_world |-> IF res.ok /\ cdd.project.use_offset
                                THEN add_v3(res.co, cdd.project.offset) ELSE res.co,
             normal_world |-> res.no])

\* The locals of stroke_elem_project_fallback once stroke_elem_project returned p
\* and r_location_world holds world.
ProjectFallbackLocal(p, world) ==
    [ok |-> p.ok,
     location_world |-> world,
     location_local |-> world_to_object(world),
     normal_world |-> p.normal_world,
     normal_local |-> IF ~is_zero_v3(p.normal_world)
                      THEN normalize_v3(mul_transposed_mat3_m4_v3(p.normal_world))
                      ELSE Zero3]

\* stroke_elem_project_fallback without the ED_view3d_win_to_3d of the failure
\* branch: r_location_world keeps what the caller passed in.
stroke_elem_project_fallback_NoFallback(cdd, mval_i, mval_fl, surface_offset, radius, location_fallback_depth, r_location_world, r_normal_world) ==
    Bind(stroke_elem_project(cdd, mval_i, mval_fl, surface_offset, radius,
                             r_location_world, r_normal_world, TRUE),
         LAMBDA p : ProjectFallbackLocal(p, p.location_world))

\* [ok, location_world, location_local, normal_world, normal_local]
stroke_elem_project_fallback(cdd, mval_i, mval_fl, surface_offset, radius, location_fallback_depth, r_location_world, r_normal_world) ==
    Bind(stroke_elem_project(cdd, mval_i, mval_fl, surface_offset, radius,
                             r_location_world, r_normal_world, TRUE),
         LAMBDA p :
            ProjectFallbackLocal(
                p, IF p.ok THEN p.location_world
                   ELSE ED_view3d_win_to_3d(location_fallback_depth, mval_fl)))

\* [ok, selem]: selem with its locations and normals set from its mval and pressure.
stroke_elem_project_fallback_elem(cdd, location_fallback_depth, selem) ==
    Bind(stroke_elem_project_fallback(
             cdd, <<RTrunc(selem.mval[1]), RTrunc(selem.mval[2])>>, selem.mval,
             cdd.project.surface_offset, stroke_elem_radius(cdd, selem),
             location_fallback_depth, selem.location_world, selem.normal_world),
         LAMBDA p :
            [ok |-> p.ok,
             selem |-> [selem EXCEPT !.location_world = p.location_world,
                                     !.location_local = p.location_local,
                                     !.normal_world = p.normal_world,
                                     !.normal_local = p.normal_local]])

(* ------------------------------------------------------------------ *)
(* Sampling: curve_draw_event_add, curve_draw_event_add_first          *)
(* ------------------------------------------------------------------ *)

\* int n = int(ceil(sqrt(double(len_sq)))) / STROKE_SAMPLE_DIST_MAX_PX (C integer division)
SubstepDivisions(len_sq) == CeilSqrt(len_sq) \div STROKE_SAMPLE_DIST_MAX_PX

\* SubstepStep without the test `is_depth_found == false`.
SubstepStep_AnySubstep(s, p, t, is_depth_found) ==
    [cdd |-> IF p.ok
             THEN [s.cdd EXCEPT !.prev.location_world_valid = p.selem.location_world]
             ELSE s.cdd,
     pool |-> Append([s.pool EXCEPT ![Len(s.pool)] = p.selem], StrokeElemZero),
     log |-> Append([s.log EXCEPT ![Len(s.log)] =
                        [ok |-> p.ok, fallback |-> s.cdd.prev.location_world_valid,
                         t |-> t]],
                    s.log[Len(s.log)])]

\* One iteration of `for (int i = 1; i < n; i++)`: the slot selem_new_last (the
\* last of the pool) already holds the interpolated sample and p is what
\* stroke_elem_project_fallback_elem made of it; a fresh slot follows it.
\* s = [cdd, pool, log]; log records, for every slot of the pool, how its sample was
\* resolved: whether stroke_elem_project found it, the fallback depth it was given,
\* and the interpolation parameter (1 for a raw sample).
SubstepStep(s, p, t, is_depth_found) ==
    [cdd |-> IF ~is_depth_found /\ p.ok
             THEN [s.cdd EXCEPT !.prev.location_world_valid = p.selem.location_world]
             ELSE s.cdd,
     pool |-> Append([s.pool EXCEPT ![Len(s.pool)] = p.selem], StrokeElemZero),
     log |-> Append([s.log EXCEPT ![Len(s.log)] =
                        [ok |-> p.ok, fallback |-> s.cdd.prev.location_world_valid,
                         t |-> t]],
                    s.log[Len(s.log)])]

\* The loop `for (int i = 1; i < n; i++)` from iteration i on.
RECURSIVE SubstepLoop(_, _, _, _, _)
SubstepLoop(s, i, n, selem_target, is_depth_found) ==
    IF i >= n THEN s
    ELSE SubstepLoop(
             SubstepStep(
                 s,
                 stroke_elem_project_fallback_elem(
                     s.cdd, s.cdd.prev.location_world_valid,
                     stroke_elem_interp(s.pool[Len(s.pool)], s.pool[s.cdd.prev.selem],
                                        selem_target, Rat(i, n))),
                 Rat(i, n), is_depth_found),
             i + 1, n, selem_target, is_depth_found)

\* EventAddProjected without the test of sample.use_substeps.
EventAddProjected_AlwaysSubsteps(cdd, pool, log, p) ==
    Bind([cdd |-> [cdd EXCEPT
                      !.prev.location_world_valid =
                          IF p.ok THEN p.selem.location_world ELSE @,
                      !.prev.location_world = p.selem.location_world,
                      !.prev.mval = p.selem.mval],
          pool |-> Append(pool, p.selem),
          log |-> Append(log, [ok |-> p.ok, fallback |-> cdd.prev.location_world_valid,
                               t |-> ROne]),
          len_sq |-> len_squared_v2v2(cdd.prev.mval, p.selem.mval)],
         LAMBDA s1 :
            Bind(IF cdd.prev.selem # 0
                    /\ RGe(s1.len_sq, square_f(STROKE_SAMPLE_DIST_MAX_PX))
                 THEN SubstepLoop([cdd |-> s1.cdd, pool |-> s1.pool, log |-> s1.log],
                                  1, SubstepDivisions(s1.len_sq), p.selem, p.ok)
                 ELSE [cdd |-> s1.cdd, pool |-> s1.pool, log |-> s1.log],
                 LAMBDA sub :
                    [cdd |-> [sub.cdd EXCEPT !.prev.selem = Len(sub.pool)],
                     pool |-> [sub.pool EXCEPT ![Len(sub.pool)] = p.selem],
                     log |-> sub.log]))

\* EventAddProjected without the final `*selem_new_last = selem_target`.
EventAddProjected_NoTarget(cdd, pool, log, p) ==
    Bind([cdd |-> [cdd EXCEPT
                      !.prev.location_world_valid =
                          IF p.ok THEN p.selem.location_world ELSE @,
                      !.prev.location_world = p.selem.location_world,
                      !.prev.mval = p.selem.mval],
          pool |-> Append(pool, p.selem),
          log |-> Append(log, [ok |-> p.ok, fallback |-> cdd.prev.location_world_valid,
                               t |-> ROne]),
          len_sq |-> len_squared_v2v2(cdd.prev.mval, p.selem.mval)],
         LAMBDA s1 :
            Bind(IF cdd.sample.use_substeps /\ cdd.prev.selem # 0
                    /\ RGe(s1.len_sq, square_f(STROKE_SAMPLE_DIST_MAX_PX))
                 THEN SubstepLoop([cdd |-> s1.cdd, pool |-> s1.pool, log |-> s1.log],
                                  1, SubstepDivisions(s1.len_sq), p.selem, p.ok)
                 ELSE [cdd |-> s1.cdd, pool |-> s1.pool, log |-> s1.log],
                 LAMBDA sub :
                    [cdd |-> [sub.cdd EXCEPT !.prev.selem = Len(sub.pool)],
                     pool |-> sub.pool,
                     log |-> sub.log]))

\* curve_draw_event_add after the first stroke_elem_project_fallback_elem returned p.
EventAddProjected(cdd, pool, log, p) ==
    Bind([cdd |-> [cdd EXCEPT
                      !.prev.location_world_valid =
                          IF p.ok THEN p.selem.location_world ELSE @,
                      !.prev.location_world = p.selem.location_world,
                      !.prev.mval = p.selem.mval],
          pool |-> Append(pool, p.selem),
          log |-> Append(log, [ok |-> p.ok, fallback |-> cdd.prev.location_world_valid,
                               t |-> ROne]),
          len_sq |-> len_squared_v2v2(cdd.prev.mval, p.selem.mval)],
         LAMBDA s1 :
            Bind(IF cdd.sample.use_substeps /\ cdd.prev.selem # 0
                    /\ RGe(s1.len_sq, square_f(STROKE_SAMPLE_DIST_MAX_PX))
                 THEN SubstepLoop([cdd |-> s1.cdd, pool |-> s1.pool, log |-> s1.log],
                                  1, SubstepDivisions(s1.len_sq), p.selem, p.ok)
                 ELSE [cdd |-> s1.cdd, pool |-> s1.pool, log |-> s1.log],
                 LAMBDA sub :
                    [cdd |-> [sub.cdd EXCEPT !.prev.selem = Len(sub.pool)],
                     pool |-> [sub.pool EXCEPT ![Len(sub.pool)] = p.selem],
                     log |-> sub.log]))

\* [cdd, pool, log] after curve_draw_event_add(op, event)
curve_draw_event_add(cdd, pool, log, event) ==
    EventAddProjected(
        cdd, pool, log,
        stroke_elem_project_fallback_elem(
            cdd, cdd.prev.location_world_valid,
            [StrokeElemZero EXCEPT
                !.mval = <<RInt(event.mval[1]), RInt(event.mval[2])>>,
                !.pressure = event.pressure]))

\* The plane normal curve_draw_event_add_first chooses, before normalize_v3.
FirstPlaneNormal(cps, read) ==
    Bind(IF cps.surface_plane \in {"NORMAL_VIEW", "NORMAL_SURFACE"} /\ read.ok
         THEN IF cps.surface_plane = "NORMAL_VIEW"
              THEN cross_v3_v3v3(read.no, cross_v3_v3v3(ViewZ, read.no))
              ELSE read.no
         ELSE Zero3,
         LAMBDA normal : IF is_zero_v3(normal) THEN ViewZ ELSE normal)

\* "Special case for when we only have offset applied on the first-hit": c is the
\* session already switched to the plane, no_offset the un-offset projection.
FirstOffset(c, no_offset) ==
    IF c.project.surface_offset # RZero /\ no_offset.ok
    THEN Bind(sub_v3(c.prev.location_world_valid, no_offset.location_world),
              LAMBDA offset :
                 [c EXCEPT !.project.offset = offset,
                           !.project.use_offset = IF ~is_zero_v3(offset) THEN TRUE ELSE @])
    ELSE c

\* The switch from the depth buffer to a plane through the first sample.
FirstSwitchToPlane(cps, c, event) ==
    Bind(normalize_v3(FirstPlaneNormal(cps, ED_view3d_depth_read_cached_normal(event.mval))),
         LAMBDA plane_no :
            Bind([c EXCEPT !.project.use_depth = FALSE,
                           !.project.use_plane = TRUE,
                           !.project.plane =
                               <<plane_no,
                                 RNeg(dot_v3v3(plane_no, c.prev.location_world_valid))>>],
                 LAMBDA c3 :
                    FirstOffset(c3,
                                stroke_elem_project(
                                    c3, event.mval,
                                    <<RInt(event.mval[1]), RInt(event.mval[2])>>,
                                    RZero, RZero, Zero3, Zero3, FALSE))))

\* curve_draw_event_add_first switching to the plane without testing
\* cdd->project.use_depth.
curve_draw_event_add_first_NoDepthTest(cps, cdd, pool, log, event) ==
    Bind(curve_draw_event_add(cdd, pool, log, event),
         LAMBDA a :
            Bind(IF cps.depth_mode = "CURVE_PAINT_PROJECT_SURFACE"
                    /\ cps.flag.DEPTH_STROKE_ENDPOINTS
                 THEN FirstSwitchToPlane(cps, a.cdd, event)
                 ELSE a.cdd,
                 LAMBDA c :
                    [cdd |-> [c EXCEPT !.init_event_type = event.type,
                                       !.state = "CURVE_DRAW_PAINTING"],
                     pool |-> a.pool, log |-> a.log]))

\* [cdd, pool, log] after curve_draw_event_add_first(op, event)
curve_draw_event_add_first(cps, cdd, pool, log, event) ==
    Bind(curve_draw_event_add(cdd, pool, log, event),
         LAMBDA a :
            Bind(IF cps.depth_mode = "CURVE_PAINT_PROJECT_SURFACE"
                    /\ a.cdd.project.use_depth /\ cps.flag.DEPTH_STROKE_ENDPOINTS
                 THEN FirstSwitchToPlane(cps, a.cdd, event)
                 ELSE a.cdd,
                 LAMBDA c :
                    [cdd |-> [c EXCEPT !.init_event_type = event.type,
                                       !.state = "CURVE_DRAW_PAINTING"],
                     pool |-> a.pool, log |-> a.log]))

(* ------------------------------------------------------------------ *)
(* Session lifetime: curve_draw_init, curve_draw_exit                  *)
(* ------------------------------------------------------------------ *)

\* The fields curve_draw_init copies from the tool settings into a zeroed CurveDrawData.
curve_draw_init(cps) ==
    [CurveDrawDataZero EXCEPT
        !.curve_type = cps.curve_type,
        !.radius = [min |-> cps.radius_min, max |-> cps.radius_max,
                    range |-> RSub(cps.radius_max, cps.radius_min)],
        !.project.surface_offset = cps.surface_offset,
        !.project.use_surface_offset_absolute = cps.flag.DEPTH_STROKE_OFFSET_ABS]

\* curve_draw_exit without its `op->customdata = nullptr`.
curve_draw_exit_KeepCustomdata(o) == o

\* curve_draw_exit: the draw callback, the pool, the depth snapshot and the
\* CurveDrawData are freed and op->customdata is cleared.
curve_draw_exit(o) == [o EXCEPT !.customdata = FALSE]

(* ------------------------------------------------------------------ *)
(* Operator/stroke conversion                                          *)
(* ------------------------------------------------------------------ *)

\* curve_draw_stroke_to_operator_elem recording the object-space position.
curve_draw_stroke_to_operator_elem_Local(selem) ==
    [mouse |-> selem.mval, location |-> selem.location_local, pressure |-> selem.pressure]

curve_draw_stroke_to_operator_elem(selem) ==
    [mouse |-> selem.mval, location |-> selem.location_world, pressure |-> selem.pressure]

curve_draw_stroke_from_operator_elem(item) ==
    [StrokeElemZero EXCEPT
        !.mval = item.mouse,
        !.location_world = item.location,
        !.location_local = world_to_object(item.location),
        !.pressure = item.pressure]

\* RNA_collection_add for every element of the pool, in pool order.
curve_draw_stroke_to_operator(stroke, pool) ==
    stroke \o [i \in 1..Len(pool) |-> curve_draw_stroke_to_operator_elem(pool[i])]

curve_draw_stroke_from_operator(stroke, pool) ==
    pool \o [i \in 1..Len(stroke) |-> curve_draw_stroke_from_operator_elem(stroke[i])]

(* ------------------------------------------------------------------ *)
(* Operator properties (RNA)                                           *)
(* ------------------------------------------------------------------ *)

\* The defaults CURVE_OT_draw registers.
PropDefault ==
    [fit_method |-> "CURVE_PAINT_FIT_METHOD_REFIT", corner_angle |-> RInt(70),
     error_threshold |-> RZero, use_cyclic |-> TRUE]

Unset(v) == [is_set |-> FALSE, value |-> v]
IsSet(v) == [is_set |-> TRUE, value |-> v]

\* SetIfUnset assigning whether or not the property is set.
SetIfUnset_Always(prop, v) == IsSet(v)

\* RNA_property_*_set when !RNA_property_is_set
SetIfUnset(prop, v) == IF prop.is_set THEN prop ELSE IsSet(v)

(* ------------------------------------------------------------------ *)
(* curve_draw_exec_precalc                                             *)
(* ------------------------------------------------------------------ *)

\* lengths[]: lengths[1] = 0 and lengths[i] the summed len_v3v3 of the local
\* positions up to sample i.
RECURSIVE CumulativeLengths(_, _, _)
CumulativeLengths(pool, i, acc) ==
    IF i > Len(pool) THEN acc
    ELSE CumulativeLengths(
             pool, i + 1,
             Append(acc, RAdd(acc[Len(acc)],
                              len_v3v3(pool[i].location_local, pool[i - 1].location_local))))

Lengths(pool) == CumulativeLengths(pool, 2, <<RZero>>)

\* len_2d of the error_threshold block.
RECURSIVE Length2D(_, _)
Length2D(pool, i) ==
    IF i > Len(pool) THEN RZero
    ELSE RAdd(len_v2v2(pool[i].mval, pool[i - 1].mval), Length2D(pool, i + 1))

\* The start pass scaling by lengths[i] / len_3d, the taper fraction left out.
RECURSIVE TaperStartLoop_NoFraction(_, _, _, _, _)
TaperStartLoop_NoFraction(cdd, pool, lengths, len_taper_max, i) ==
    IF i <= Len(pool) /\ RLt(lengths[i], len_taper_max)
    THEN TaperStartLoop_NoFraction(
             cdd,
             [pool EXCEPT ![i] = stroke_elem_pressure_set(
                                     cdd, @, RMul(pool[i].pressure,
                                                  RDiv(lengths[i], lengths[Len(lengths)])))],
             lengths, len_taper_max, i + 1)
    ELSE pool

\* `for (i = 0; i < stroke_len && lengths[i] < len_taper_max; i++)`, from index i
\* (1-based) on.
RECURSIVE TaperStartLoop(_, _, _, _, _)
TaperStartLoop(cdd, pool, lengths, len_taper_max, i) ==
    IF i <= Len(pool) /\ RLt(lengths[i], len_taper_max)
    THEN TaperStartLoop(
             cdd,
             [pool EXCEPT ![i] = stroke_elem_pressure_set(
                                     cdd, @, RMul(pool[i].pressure,
                                                  RDiv(lengths[i], len_taper_max)))],
             lengths, len_taper_max, i + 1)
    ELSE pool

\* `for (i = stroke_len - 1; i > 0 && lengths[i] > len_taper_min; i--)`, from
\* index i (1-based, so i > 1) on.
RECURSIVE TaperEndLoop(_, _, _, _, _, _)
TaperEndLoop(cdd, pool, lengths, len_3d, len_taper_max, i) ==
    IF i > 1 /\ RGt(lengths[i], RSub(len_3d, len_taper_max))
    THEN TaperEndLoop(
             cdd,
             [pool EXCEPT ![i] = stroke_elem_pressure_set(
                                     cdd, @, RMul(pool[i].pressure,
                                                  RDiv(RSub(len_3d, lengths[i]),
                                                       len_taper_max)))],
             lengths, len_3d, len_taper_max, i - 1)
    ELSE pool

TaperStart(cps, cdd, pool, lengths) ==
    IF cps.radius_taper_start # RZero
    THEN TaperStartLoop(cdd, pool, lengths,
                        RMul(cps.radius_taper_start, lengths[Len(lengths)]), 1)
    ELSE pool

TaperEnd(cps, cdd, pool, lengths) ==
    IF cps.radius_taper_end # RZero
    THEN TaperEndLoop(cdd, pool, lengths, lengths[Len(lengths)],
                      RMul(cps.radius_taper_end, lengths[Len(lengths)]), Len(pool))
    ELSE pool

\* scale_px: the pixel to local space scale of the error_threshold block.
ScalePx(len_3d, len_2d) ==
    IF RGt(len_3d, RZero) /\ RGt(len_2d, RZero) THEN RDiv(len_3d, len_2d) ELSE RZero

\* use_cyclic as the use_cyclic block computes it.
PrecalcUseCyclic(pool) ==
    /\ Len(pool) > 2
    /\ RLe(len_squared_v2v2(pool[1].mval, pool[Len(pool)].mval),
           RMul(RMul(RInt(STROKE_CYCLIC_DIST_PX), UI_SCALE_FAC),
                RMul(RInt(STROKE_CYCLIC_DIST_PX), UI_SCALE_FAC)))

\* The properties after curve_draw_exec_precalc: each is assigned only when unset.
PrecalcProps(cps, props, pool, len_3d) ==
    [props EXCEPT
        !.fit_method = SetIfUnset(@, cps.fit_method),
        !.corner_angle = SetIfUnset(@, IF cps.flag.CORNERS_DETECT
                                       THEN cps.corner_angle ELSE M_PI),
        !.error_threshold = SetIfUnset(@, RMul(RMul(cps.error_threshold, UI_SCALE_FAC),
                                               ScalePx(len_3d, Length2D(pool, 2)))),
        !.use_cyclic = SetIfUnset(@, PrecalcUseCyclic(pool))]

\* curve_draw_exec_precalc measuring the lengths again between the two passes.
curve_draw_exec_precalc_Remeasure(cps, cdd, props, pool) ==
    Bind(Lengths(pool),
         LAMBDA lengths :
            IF cps.radius_taper_start # RZero \/ cps.radius_taper_end # RZero
            THEN Bind(TaperStart(cps, cdd, pool, lengths),
                      LAMBDA start :
                         [props |-> PrecalcProps(cps, props, pool, lengths[Len(lengths)]),
                          pool |-> TaperEnd(cps, cdd, start, Lengths(start)),
                          start |-> start, lengths |-> lengths])
            ELSE [props |-> PrecalcProps(cps, props, pool, lengths[Len(lengths)]),
                  pool |-> pool, start |-> pool, lengths |-> lengths])

\* [props, pool, start, lengths] after curve_draw_exec_precalc; start is the pool
\* between the two taper passes.
curve_draw_exec_precalc(cps, cdd, props, pool) ==
    Bind(Lengths(pool),
         LAMBDA lengths :
            IF cps.radius_taper_start # RZero \/ cps.radius_taper_end # RZero
            THEN Bind(TaperStart(cps, cdd, pool, lengths),
                      LAMBDA start :
                         [props |-> PrecalcProps(cps, props, pool, lengths[Len(lengths)]),
                          pool |-> TaperEnd(cps, cdd, start, lengths),
                          start |-> start, lengths |-> lengths])
            ELSE [props |-> PrecalcProps(cps, props, pool, lengths[Len(lengths)]),
                  pool |-> pool, start |-> pool, lengths |-> lengths])

(* ------------------------------------------------------------------ *)
(* curve_draw_exec                                                     *)
(* ------------------------------------------------------------------ *)

\* One row of coords: the local position, and the pressure when dims is 4.
Coord(selem, use_pressure_radius) ==
    IF use_pressure_radius
    THEN <<selem.location_local[1], selem.location_local[2], selem.location_local[3],
           selem.pressure>>
    ELSE selem.location_local

\* The "remove doubles" loop without its `co -= dims; stroke_len--`: every row is kept.
RECURSIVE RemoveDoubles_KeepAll(_, _, _, _)
RemoveDoubles_KeepAll(pool, i, use_pressure_radius, coords) ==
    IF i > Len(pool) THEN coords
    ELSE RemoveDoubles_KeepAll(pool, i + 1, use_pressure_radius,
                               Append(coords, Coord(pool[i], use_pressure_radius)))

\* The "remove doubles" loop: a row equal (memcmp) to the row kept before it is
\* overwritten by the next one.  The result is coords[0 .. stroke_len).
RECURSIVE RemoveDoubles(_, _, _, _)
RemoveDoubles(pool, i, use_pressure_radius, coords) ==
    IF i > Len(pool) THEN coords
    ELSE RemoveDoubles(pool, i + 1, use_pressure_radius,
                       IF coords # <<>>
                          /\ Coord(pool[i], use_pressure_radius) = coords[Len(coords)]
                       THEN coords
                       ELSE Append(coords, Coord(pool[i], use_pressure_radius)))

FitCoords(pool, use_pressure_radius) == RemoveDoubles(pool, 1, use_pressure_radius, <<>>)

\* curve_fit_cubic_to_points_fl / curve_fit_cubic_to_points_refit_fl (curve_fit_nd):
\* the library's status and corner indices are inputs; a successful fit is taken to
\* put one knot, with both handles on it, at every point it was given.
curve_fit_cubic_to_points(coords, outcome) ==
    IF outcome.result = 0
    THEN [result |-> 0,
          cubic_spline |-> [j \in 1..Len(coords) |-> <<coords[j], coords[j], coords[j]>>],
          corners_index |-> outcome.corners_index]
    ELSE [result |-> outcome.result, cubic_spline |-> <<>>, corners_index |-> <<>>]

\* The results the fit library may report for stroke_len points.
FitOutcomes(stroke_len, cyclic) ==
    {[result |-> -1, corners_index |-> <<>>]} \cup
    {[result |-> 0, corners_index |-> ci] :
        ci \in IF cyclic THEN {<<>>, <<1>>}
               ELSE IF stroke_len >= 3 THEN {<<0, stroke_len - 1>>, <<0, 1, stroke_len - 1>>}
               ELSE IF stroke_len = 2 THEN {<<0, 1>>}
               ELSE {<<>>, <<0>>}}

Vec3Of(co) == <<co[1], co[2], co[3]>>

\* MEM_callocN<Nurb>
NurbZero ==
    [type |-> "NONE", pntsu |-> 0, pntsv |-> 0, flagu_cyclic |-> FALSE,
     bezt |-> <<>>, bp |-> <<>>]

\* The second pass without its "ignore the first and last": every corner index.
FreeCorners_KeepEnds(corners_index, calc_cyclic) ==
    {corners_index[i + 1] : i \in 0..(Len(corners_index) - 1)}

\* The corner indices whose knots become HD_FREE: the first and last are skipped
\* when there are at least two and the fit was not cyclic.
FreeCorners(corners_index, calc_cyclic) ==
    IF Len(corners_index) >= 2 /\ ~calc_cyclic
    THEN {corners_index[i + 1] : i \in 1..(Len(corners_index) - 2)}
    ELSE {corners_index[i + 1] : i \in 0..(Len(corners_index) - 1)}

\* use_pressure_radius from the pressure option alone, the taper fractions left out.
UsePressureRadius_OptionOnly(cps) == cps.flag.PRESSURE_RADIUS

\* use_pressure_radius of curve_draw_exec
UsePressureRadius(cps) ==
    cps.flag.PRESSURE_RADIUS \/ cps.radius_taper_start # RZero \/ cps.radius_taper_end # RZero

\* The cyclic test without `stroke_len > 2`.
CalcCyclic_AnyLength(stroke_len, use_cyclic) == use_cyclic

\* The cyclic test with `stroke_len > 3` for `stroke_len > 2`.
CalcCyclic_OffByOne(stroke_len, use_cyclic) == stroke_len > 3 /\ use_cyclic

\* calc_flag & CURVE_FIT_CALC_CYCLIC
CalcCyclic(stroke_len, use_cyclic) == stroke_len > 2 /\ use_cyclic

\* The corner detection test without the fit method.
DetectsCorners_AnyMethod(fit_method, corner_angle) == RLt(corner_angle, M_PI)

\* Whether curve_fit_corners_detect_fl is called.
DetectsCorners(fit_method, corner_angle) ==
    fit_method = "CURVE_PAINT_FIT_METHOD_SPLIT" /\ RLt(corner_angle, M_PI)

\* The corners argument of the fit call: the list curve_fit_corners_detect_fl
\* made, or nullptr (the refit call is always given nullptr).
FitCorners(fit_method, corner_angle) ==
    IF fit_method = "CURVE_PAINT_FIT_METHOD_REFIT" THEN "nullptr"
    ELSE IF DetectsCorners(fit_method, corner_angle) THEN "detected" ELSE "nullptr"

\* One BezTriple of the result == 0 block: co is its <<handle_l, pt, handle_r>>.
BezTripleOf(cps, cdd, dims4, co, is_free) ==
    [vec |-> <<Vec3Of(co[1]), Vec3Of(co[2]), Vec3Of(co[3])>>,
     radius |-> IF dims4
                THEN RAdd(RMul(co[2][4], cdd.radius.range), cdd.radius.min)
                ELSE cps.radius_max,
     h |-> IF is_free THEN "HD_FREE" ELSE "HD_ALIGN",
     select |-> TRUE]

\* The Nurb built by the CU_BEZIER branch, given what the fit call returned.
BezierNurb(cps, cdd, dims4, fitted, calc_cyclic) ==
    IF fitted.result = 0
    THEN [NurbZero EXCEPT
             !.type = "CU_BEZIER",
             !.pntsu = Len(fitted.cubic_spline),
             !.bezt = [j \in 1..Len(fitted.cubic_spline) |->
                          BezTripleOf(cps, cdd, dims4, fitted.cubic_spline[j],
                                      (j - 1) \in FreeCorners(fitted.corners_index,
                                                              calc_cyclic))],
             !.flagu_cyclic = calc_cyclic]
    ELSE [NurbZero EXCEPT !.type = "CU_BEZIER"]

\* One BPoint of the CU_POLY branch.
BPointOf(cps, cu, selem) ==
    [vec |-> IF cu.is_3d THEN selem.location_local
             ELSE <<selem.location_local[1], selem.location_local[2], RZero>>,
     radius |-> IF UsePressureRadius(cps)
                THEN RAdd(RMul(selem.pressure, RSub(cps.radius_max, cps.radius_min)),
                          cps.radius_min)
                ELSE cps.radius_max,
     select |-> TRUE]

\* The CU_POLY branch emitting a sample only when its position differs from the
\* one before it.
PolyNurb_Dedupe(cps, cu, pool) ==
    [NurbZero EXCEPT
        !.type = "CU_POLY", !.pntsu = Len(FitCoords(pool, FALSE)), !.pntsv = 1,
        !.bp = [i \in 1..Len(FitCoords(pool, FALSE)) |->
                   [vec |-> FitCoords(pool, FALSE)[i], radius |-> cps.radius_max,
                    select |-> TRUE]]]

\* The Nurb built by the CU_POLY branch.
PolyNurb(cps, cu, pool) ==
    [NurbZero EXCEPT
        !.type = "CU_POLY", !.pntsu = Len(pool), !.pntsv = 1,
        !.bp = [i \in 1..Len(pool) |-> BPointOf(cps, cu, pool[i])]]

\* ED_curve_deselect_all_multi
DeselectNurb(nu) ==
    [nu EXCEPT !.bezt = [j \in 1..Len(nu.bezt) |-> [nu.bezt[j] EXCEPT !.select = FALSE]],
               !.bp = [j \in 1..Len(nu.bp) |-> [nu.bp[j] EXCEPT !.select = FALSE]]]

ED_curve_deselect_all_multi(nurbs) == [k \in 1..Len(nurbs) |-> DeselectNurb(nurbs[k])]

\* RNA_*_get: the value set, else the registered default.
PropGet(props, name) == props[name].value

\* The tail of curve_draw_exec: nu is linked into nurblist and made active.
ExecAddTail(cu, nurbs, nu, fit) ==
    [nurblist |-> Append(ED_curve_deselect_all_multi(nurbs), nu),
     cu |-> [cu EXCEPT !.actnu = Len(nurbs) + 1, !.actvert = nu.pntsu - 1],
     fit |-> fit]

\* The CU_BEZIER branch of curve_draw_exec on the rows coords.
ExecBezier(cps, cu, cdd, props, nurbs, outcome, coords) ==
    Bind(CalcCyclic(Len(coords), PropGet(props, "use_cyclic")),
         LAMBDA calc_cyclic :
            ExecAddTail(
                cu, nurbs,
                BezierNurb(cps, cdd, UsePressureRadius(cps),
                           curve_fit_cubic_to_points(coords, outcome), calc_cyclic),
                [calls |-> 1,
                 corners_calls |-> IF DetectsCorners(PropGet(props, "fit_method"),
                                                     PropGet(props, "corner_angle"))
                                   THEN 1 ELSE 0,
                 corners |-> FitCorners(PropGet(props, "fit_method"),
                                        PropGet(props, "corner_angle")),
                 coords |-> coords, cyclic |-> calc_cyclic,
                 result |-> outcome.result,
                 corners_index |-> curve_fit_cubic_to_points(coords, outcome).corners_index]))

\* curve_draw_exec from the point where the session exists and the pool is
\* loaded: [nurblist, cu, fit], fit being the record of the library calls made.
curve_draw_exec(cps, cu, cdd, props, pool, nurbs, outcome) ==
    IF cdd.curve_type = "CU_BEZIER"
    THEN ExecBezier(cps, cu, cdd, props, nurbs, outcome,
                    FitCoords(pool, UsePressureRadius(cps)))
    ELSE ExecAddTail(cu, nurbs, PolyNurb(cps, cu, pool),
                     [calls |-> 0, corners_calls |-> 0, corners |-> "nullptr", coords |-> <<>>,
                      cyclic |-> FALSE, result |-> 0, corners_index |-> <<>>])

(* ------------------------------------------------------------------ *)
(* Inputs: tool settings, operator properties, events                  *)
(* ------------------------------------------------------------------ *)

\* Samples an event may add while the pool holds fewer than this many.
MaxSamples == 3

\* scene->toolsettings->curve_paint_settings
CpsDefault ==
    [curve_type |-> "CU_BEZIER",
     depth_mode |-> "CURVE_PAINT_PROJECT_CURSOR",
     flag |-> [PRESSURE_RADIUS |-> FALSE, CORNERS_DETECT |-> TRUE,
               DEPTH_STROKE_ENDPOINTS |-> FALSE, DEPTH_STROKE_OFFSET_ABS |-> FALSE],
     radius_min |-> ROne, radius_max |-> RInt(3),
     surface_offset |-> RZero, surface_plane |-> "VIEW",
     fit_method |-> "CURVE_PAINT_FIT_METHOD_REFIT",
     corner_angle |-> RInt(70), error_threshold |-> RInt(8),
     radius_taper_start |-> RZero, radius_taper_end |-> RZero]

CpsChoices ==
    {CpsDefault,
     [CpsDefault EXCEPT !.radius_taper_start = RHalf, !.flag.PRESSURE_RADIUS = TRUE,
                        !.fit_method = "CURVE_PAINT_FIT_METHOD_SPLIT"],
     [CpsDefault EXCEPT !.radius_taper_end = RHalf, !.flag.CORNERS_DETECT = FALSE,
                        !.fit_method = "CURVE_PAINT_FIT_METHOD_SPLIT"],
     [CpsDefault EXCEPT !.depth_mode = "CURVE_PAINT_PROJECT_SURFACE",
                        !.flag.PRESSURE_RADIUS = TRUE],
     [CpsDefault EXCEPT !.depth_mode = "CURVE_PAINT_PROJECT_SURFACE",
                        !.surface_offset = RHalf,
                        !.radius_taper_start = RHalf, !.radius_taper_end = ROne],
     [CpsDefault EXCEPT !.depth_mode = "CURVE_PAINT_PROJECT_SURFACE",
                        !.surface_offset = RHalf, !.flag.DEPTH_STROKE_OFFSET_ABS = TRUE,
                        !.flag.DEPTH_STROKE_ENDPOINTS = TRUE,
                        !.surface_plane = "NORMAL_SURFACE",
                        !.radius_taper_end = RInt(2)],
     [CpsDefault EXCEPT !.depth_mode = "CURVE_PAINT_PROJECT_SURFACE",
                        !.flag.DEPTH_STROKE_ENDPOINTS = TRUE,
                        !.surface_plane = "NORMAL_VIEW",
                        !.surface_offset = RHalf],
     [CpsDefault EXCEPT !.curve_type = "CU_POLY", !.flag.PRESSURE_RADIUS = TRUE,
                        !.radius_taper_start = RHalf],
     [CpsDefault EXCEPT !.curve_type = "CU_POLY",
                        !.depth_mode = "CURVE_PAINT_PROJECT_SURFACE"],
     [CpsDefault EXCEPT !.depth_mode = "CURVE_PAINT_PROJECT_SURFACE",
                        !.surface_offset = RHalf, !.flag.DEPTH_STROKE_OFFSET_ABS = TRUE,
                        !.radius_taper_start = RHalf]}

PropsUnset ==
    [fit_method |-> Unset(PropDefault.fit_method),
     corner_angle |-> Unset(PropDefault.corner_angle),
     error_threshold |-> Unset(PropDefault.error_threshold),
     use_cyclic |-> Unset(PropDefault.use_cyclic)]

PropsChoices ==
    {PropsUnset,
     [PropsUnset EXCEPT !.use_cyclic = IsSet(FALSE), !.corner_angle = IsSet(M_PI)],
     [PropsUnset EXCEPT !.use_cyclic = IsSet(TRUE), !.error_threshold = IsSet(ROne),
                        !.fit_method = IsSet("CURVE_PAINT_FIT_METHOD_SPLIT")]}

\* One OperatorStrokeElement at pixel (x, 0), world (x, 0, z).
Elem(x, z, p) ==
    [mouse |-> <<RInt(x), RZero>>, location |-> <<RInt(x), RZero, RInt(z)>>, pressure |-> p]

\* The "stroke" collections a caller may pass.
StrokeChoices ==
    {<<>>,
     <<Elem(0, 1, ROne)>>,
     <<Elem(0, 1, ROne), Elem(0, 1, ROne)>>,
     <<Elem(2, 1, RHalf), Elem(2, 1, RHalf), Elem(2, 1, RHalf)>>,
     <<Elem(0, 1, ROne), Elem(0, 1, RHalf), Elem(4, 1, ROne)>>,
     <<Elem(0, 1, ROne), Elem(4, 1, ROne), Elem(4, 1, ROne), Elem(6, 3, RHalf)>>,
     <<Elem(0, 1, ROne), Elem(4, 1, ROne), Elem(6, 3, RHalf)>>,
     <<Elem(0, 1, ROne), Elem(4, 1, ROne), Elem(6, 3, RHalf), Elem(0, 1, ROne)>>}

\* The pointer samples (pixel, tablet pressure) the host may deliver.
PointerSamples ==
    {[mval |-> <<0, 0>>, pressure |-> ROne], [mval |-> <<2, 0>>, pressure |-> RHalf],
     [mval |-> <<5, 0>>, pressure |-> ROne], [mval |-> <<8, 0>>, pressure |-> RHalf],
     [mval |-> <<9, 1>>, pressure |-> ROne]}

\* The pointer samples at which the operator may be invoked.
InvokeSamples ==
    {[mval |-> <<0, 0>>, pressure |-> ROne], [mval |-> <<8, 0>>, pressure |-> RHalf]}

EventTypes == {"LEFTMOUSE", "RIGHTMOUSE", "EVT_ESCKEY", "MOUSEMOVE", "EVT_DKEY"}
EventVals == {"KM_PRESS", "KM_RELEASE", "KM_NOTHING"}

Event(type, val, mval, pressure) ==
    [type |-> type, val |-> val, mval |-> mval, pressure |-> pressure]

\* A spline the curve may hold before the operator runs.
ExistingNurb ==
    [NurbZero EXCEPT !.type = "CU_POLY", !.pntsu = 1, !.pntsv = 1,
                     !.bp = <<[vec |-> Zero3, radius |-> ROne, select |-> TRUE]>>]

(* ------------------------------------------------------------------ *)
(* source/blender/geometry/intern/transform.cc                         *)
(* ------------------------------------------------------------------ *)

AxisY == <<RZero, ROne, RZero>>

\* An affine float4x4: its three basis axes and its location (the last row is
\* 0 0 0 1).  A float3x3 is the same with a zero location.
Mat(x, y, z, loc) == [x |-> x, y |-> y, z |-> z, loc |-> loc]

\* float4x4::identity()
MatIdentity == Mat(AxisX, AxisY, AxisZ, Zero3)

\* math::from_location<float4x4>(translation)
from_location(translation) == Mat(AxisX, AxisY, AxisZ, translation)

\* The float3x3 of the rotation and scale of a float4x4 (copy_m3_m4, view<3, 3>).
copy_m3_m4(m) == [m EXCEPT !.loc = Zero3]

\* math::transform_point(matrix, position)
transform_point(m, p) ==
    add_v3(add_v3(mul_v3_fl(m.x, p[1]), mul_v3_fl(m.y, p[2])),
           add_v3(mul_v3_fl(m.z, p[3]), m.loc))

\* a * b of two float4x4 (or float3x3)
MatMul(a, b) ==
    Mat(transform_point(copy_m3_m4(a), b.x), transform_point(copy_m3_m4(a), b.y),
        transform_point(copy_m3_m4(a), b.z), transform_point(a, b.loc))

\* math::determinant(grid_matrix)
determinant(m) == dot_v3v3(m.x, cross_v3_v3v3(m.y, m.z))

\* BKE_volume_grid_determinant_valid: the magnitude of the determinant is not
\* below what a grid transform needs (1/1000 stands for the library's limit).
BKE_volume_grid_determinant_valid(det) ==
    RGe(IF RLt(det, RZero) THEN RNeg(det) ELSE det, Rat(1, 1000))

\* TransformGeometryErrors
NoErrors == [volume_too_small |-> FALSE, bad_volume_transform |-> FALSE]

\* translate_positions: every position += translation
translate_positions(positions, translation) ==
    [i \in 1..Len(positions) |-> add_v3(positions[i], translation)]

\* transform_positions: every position = math::transform_point(matrix, position)
transform_positions(positions, matrix) ==
    [i \in 1..Len(positions) |-> transform_point(matrix, positions[i])]

\* transform_pointcloud: the "position" attribute is transformed, the bounds
\* cache is tagged dirty by the attribute writer.
transform_pointcloud(pointcloud, transform) ==
    [pointcloud EXCEPT !.positions = transform_positions(@, transform),
                       !.bounds = [cached |-> FALSE, min |-> Zero3, max |-> Zero3]]

\* transform_greasepencil: every layer's local transform = transform * local
transform_greasepencil(layers, transform) ==
    [i \in 1..Len(layers) |-> MatMul(transform, layers[i])]

\* transform_instances: every instance transform = transform * instance_transform
transform_instances(transforms, transform) ==
    [i \in 1..Len(transforms) |-> MatMul(transform, transforms[i])]

\* ResetAxes taking the identity axes whatever the determinant.
ResetAxes_AlwaysIdentity(grid_matrix) ==
    [grid_matrix EXCEPT !.x = AxisX, !.y = AxisY, !.z = AxisZ]

\* The grid matrix transform_volume hands to set_transform_matrix when the
\* determinant of grid_matrix is not valid.
ResetAxes(grid_matrix) ==
    IF determinant(grid_matrix) = RZero
    THEN [grid_matrix EXCEPT !.x = AxisX, !.y = AxisY, !.z = AxisZ]
    ELSE [grid_matrix EXCEPT !.x = normalize_v3(@), !.y = normalize_v3(@),
                             !.z = normalize_v3(@)]

\* One iteration of the grid loop of transform_volume: [too_small, bad, grid].
\* throws: set_transform_matrix throws for this grid, which then keeps its matrix.
TransformGrid(grid, transform, throws) ==
    Bind(MatMul(transform, grid.matrix),
         LAMBDA grid_matrix :
            IF BKE_volume_grid_determinant_valid(determinant(grid_matrix))
            THEN [too_small |-> FALSE, bad |-> throws,
                  grid |-> IF throws THEN grid ELSE [grid EXCEPT !.matrix = grid_matrix]]
            ELSE [too_small |-> TRUE, bad |-> throws,
                  grid |-> [matrix |-> IF throws THEN grid.matrix
                                       ELSE ResetAxes(grid_matrix),
                            tree |-> "empty"]])

\* transform_volume built WITH_OPENVDB: [grids, errors]; throws[i] tells whether
\* set_transform_matrix throws for grid i.
transform_volume(grids, transform, r_errors, throws) ==
    [grids |-> [i \in 1..Len(grids) |-> TransformGrid(grids[i], transform, throws[i]).grid],
     errors |->
        [volume_too_small |->
            \/ r_errors.volume_too_small
            \/ \E i \in 1..Len(grids) : TransformGrid(grids[i], transform, throws[i]).too_small,
         bad_volume_transform |->
            \/ r_errors.bad_volume_transform
            \/ \E i \in 1..Len(grids) : TransformGrid(grids[i], transform, throws[i]).bad]]

\* transform_curve_edit_hints, and the same steps on one drawing of
\* transform_grease_pencil_edit_hints: positions when present are transformed,
\* deform_mats are multiplied from the left or created for point_num points.
transform_curve_edit_hints(edit_hints, transform) ==
    [edit_hints EXCEPT
        !.positions = [@ EXCEPT !.values = transform_positions(@, transform)],
        !.deform_mats =
            IF @.has
            THEN [@ EXCEPT !.values = [i \in 1..Len(@) |->
                                          MatMul(copy_m3_m4(transform), @[i])]]
            ELSE [has |-> TRUE,
                  values |-> [i \in 1..edit_hints.point_num |-> copy_m3_m4(transform)]]]

\* transform_grease_pencil_edit_hints: nothing without drawing_hints.
transform_grease_pencil_edit_hints(edit_hints, transform) ==
    IF ~edit_hints.has_drawing_hints THEN edit_hints
    ELSE [edit_hints EXCEPT
             !.drawing_hints = [i \in 1..Len(@) |->
                                   transform_curve_edit_hints(@[i], transform)]]

\* transform_gizmo_edit_hints: every gizmo transform = transform * m
transform_gizmo_edit_hints(gizmo_transforms, transform) ==
    [i \in 1..Len(gizmo_transforms) |-> MatMul(transform, gizmo_transforms[i])]

\* The components a bke::GeometrySet may hold.
ComponentNames ==
    {"curves", "mesh", "pointcloud", "grease_pencil", "volume", "instances",
     "curve_edit_hints", "grease_pencil_edit_hints", "gizmo_edit_hints"}

\* The volume after transform_volume, which does nothing in a build without
\* WITH_OPENVDB: [grids, errors].
VolumeTransformed(geometry, transform, throws, with_openvdb) ==
    IF "volume" \in geometry.has /\ with_openvdb
    THEN transform_volume(geometry.volume, transform, NoErrors, throws)
    ELSE [grids |-> geometry.volume, errors |-> NoErrors]

\* transform_geometry: [geometry, result, errors]; result is the returned
\* std::optional<TransformGeometryErrors>, errors the local `errors` at the return.
\* geometry.has names the components present (get_*_for_write returns them),
\* geometry.written the components acquired for writing.
transform_geometry(geometry, transform, throws, with_openvdb) ==
    IF transform = MatIdentity
    THEN [geometry |-> geometry, result |-> [has |-> FALSE, value |-> NoErrors],
          errors |-> NoErrors]
    ELSE Bind(VolumeTransformed(geometry, transform, throws, with_openvdb),
              LAMBDA vol :
                 [geometry |->
                     [geometry EXCEPT
                         !.curves = transform_positions(@, transform),
                         !.mesh = transform_positions(@, transform),
                         !.pointcloud = IF "pointcloud" \in geometry.has
                                        THEN transform_pointcloud(@, transform) ELSE @,
                         !.grease_pencil = transform_greasepencil(@, transform),
                         !.volume = vol.grids,
                         !.instances = transform_instances(@, transform),
                         !.curve_edit_hints =
                             IF "curve_edit_hints" \in geometry.has
                             THEN transform_curve_edit_hints(@, transform) ELSE @,
                         !.grease_pencil_edit_hints =
                             IF "grease_pencil_edit_hints" \in geometry.has
                             THEN transform_grease_pencil_edit_hints(@, transform) ELSE @,
                         !.gizmo_edit_hints = transform_gizmo_edit_hints(@, transform),
                         !.written = @ \cup geometry.has],
                  result |-> IF vol.errors.volume_too_small
                             THEN [has |-> TRUE, value |-> vol.errors]
                             ELSE [has |-> FALSE, value |-> NoErrors],
                  errors |-> vol.errors])

\* translate_pointcloud putting the bounds it copied back as they were.
translate_pointcloud_KeepBounds(pointcloud, translation) ==
    IF is_zero_v3(translation) THEN pointcloud
    ELSE [pointcloud EXCEPT
             !.positions = translate_positions(@, translation),
             !.bounds = IF @.cached THEN @
                        ELSE [cached |-> FALSE, min |-> Zero3, max |-> Zero3]]

\* translate_pointcloud: nothing for a zero translation; otherwise the "position"
\* attribute is translated (the attribute writer tags the bounds cache dirty) and,
\* when bounds were cached on entry, the cache is filled again with the copied
\* bounds moved by the translation.
translate_pointcloud(pointcloud, translation) ==
    IF is_zero_v3(translation) THEN pointcloud
    ELSE [pointcloud EXCEPT
             !.positions = translate_positions(@, translation),
             !.bounds = IF @.cached
                        THEN [cached |-> TRUE, min |-> add_v3(@.min, translation),
                              max |-> add_v3(@.max, translation)]
                        ELSE [cached |-> FALSE, min |-> Zero3, max |-> Zero3]]

\* m.location() += translation
AddLocation(m, translation) == [m EXCEPT !.loc = add_v3(@, translation)]

\* translate_greasepencil: every layer's local_transform.location() += translation
translate_greasepencil(layers, translation) ==
    [i \in 1..Len(layers) |-> AddLocation(layers[i], translation)]

\* translate_instances: add_v3_v3(instance_transform.ptr()[3], translation)
translate_instances(transforms, translation) ==
    [i \in 1..Len(transforms) |-> AddLocation(transforms[i], translation)]

\* translate_volume: transform_volume with from_location(translation) and a
\* local error record that is dropped.
translate_volume(grids, translation, throws) ==
    transform_volume(grids, from_location(translation), NoErrors, throws).grids

\* translate_curve_edit_hints: positions when present are translated, deform_mats
\* are left as they are.
translate_curve_edit_hints(edit_hints, translation) ==
    [edit_hints EXCEPT
        !.positions = [@ EXCEPT !.values = translate_positions(@, translation)]]

\* translate_gizmos_edit_hints: every gizmo transform's location += translation
translate_gizmos_edit_hints(gizmo_transforms, translation) ==
    [i \in 1..Len(gizmo_transforms) |-> AddLocation(gizmo_transforms[i], translation)]

\* The components translate_geometry acquires for writing: it has no branch for
\* the grease-pencil edit hints.
TranslateComponents == ComponentNames \ {"grease_pencil_edit_hints"}

\* translate_geometry without the test math::is_zero(translation).
translate_geometry_NoEarlyReturn(geometry, translation, throws, with_openvdb) ==
    [geometry EXCEPT
        !.curves = translate_positions(@, translation),
        !.mesh = translate_positions(@, translation),
        !.pointcloud = IF "pointcloud" \in geometry.has
                       THEN translate_pointcloud(@, translation) ELSE @,
        !.grease_pencil = translate_greasepencil(@, translation),
        !.volume = IF "volume" \in geometry.has /\ with_openvdb
                   THEN translate_volume(@, translation, throws) ELSE @,
        !.instances = translate_instances(@, translation),
        !.curve_edit_hints =
            IF "curve_edit_hints" \in geometry.has
            THEN translate_curve_edit_hints(@, translation) ELSE @,
        !.gizmo_edit_hints = translate_gizmos_edit_hints(@, translation),
        !.written = @ \cup (geometry.has \cap TranslateComponents)]

\* translate_geometry: the geometry set after the call.
translate_geometry(geometry, translation, throws, with_openvdb) ==
    IF is_zero_v3(translation) THEN geometry
    ELSE [geometry EXCEPT
             !.curves = translate_positions(@, translation),
             !.mesh = translate_positions(@, translation),
             !.pointcloud = IF "pointcloud" \in geometry.has
                            THEN translate_pointcloud(@, translation) ELSE @,
             !.grease_pencil = translate_greasepencil(@, translation),
             !.volume = IF "volume" \in geometry.has /\ with_openvdb
                        THEN translate_volume(@, translation, throws) ELSE @,
             !.instances = translate_instances(@, translation),
             !.curve_edit_hints =
                 IF "curve_edit_hints" \in geometry.has
                 THEN translate_curve_edit_hints(@, translation) ELSE @,
             !.gizmo_edit_hints = translate_gizmos_edit_hints(@, translation),
             !.written = @ \cup (geometry.has \cap TranslateComponents)]

\* The loop body of translate_positions or transform_positions on one element.
UpdatePosition(call, position, transform) ==
    IF call = "translate_positions" THEN add_v3(position, transform.loc)
    ELSE transform_point(transform, position)

\* positions.slice(range) taking one element more than the range holds.
Slice_OneMore(len, range) ==
    {i \in 1..len : range.start <= i /\ i <= range.start + range.size}

\* positions.slice(range): the indices (1-based) of the elements of one chunk.
Slice(len, range) == {i \in 1..len : range.start <= i /\ i < range.start + range.size}

\* The index ranges threading::parallel_for may hand to the loop body of a range
\* of len elements cut after the indices in cuts: one chunk per start index.
ChunkStarts(cuts) == {1} \cup {c + 1 : c \in cuts}

ChunkEnd(len, cuts, s) ==
    IF \E c \in cuts : c >= s THEN CHOOSE c \in cuts : c >= s /\ \A d \in cuts : d >= s => c <= d
    ELSE len

\* The task of every chunk before it ran: the element it visits next, and the
\* value it read and has not written back yet.
Chunks(len, cuts) ==
    [s \in ChunkStarts(cuts) |->
        [range |-> [start |-> s, size |-> ChunkEnd(len, cuts, s) - s + 1],
         next |-> s, held |-> FALSE, value |-> Zero3]]

\* No loop of transform.cc is running.
ParIdle == [before |-> <<>>, positions |-> <<>>, writes |-> <<>>, chunks |-> <<>>]

\* Inputs.  A component that is absent holds no elements.
NoHints ==
    [positions |-> [has |-> FALSE, values |-> <<>>],
     deform_mats |-> [has |-> FALSE, values |-> <<>>], point_num |-> 0]

GeometryEmpty ==
    [has |-> {}, written |-> {}, curves |-> <<>>, mesh |-> <<>>,
     pointcloud |-> [positions |-> <<>>,
                     bounds |-> [cached |-> FALSE, min |-> Zero3, max |-> Zero3]],
     grease_pencil |-> <<>>, volume |-> <<>>, instances |-> <<>>,
     curve_edit_hints |-> NoHints,
     grease_pencil_edit_hints |-> [has_drawing_hints |-> FALSE, drawing_hints |-> <<>>],
     gizmo_edit_hints |-> <<>>]

Scale(f, loc) == Mat(mul_v3_fl(AxisX, f), mul_v3_fl(AxisY, f), mul_v3_fl(AxisZ, f), loc)
P1 == <<ROne, RInt(2), RInt(3)>>
P2 == <<RNeg(ROne), RZero, RHalf>>

GridChoices ==
    {[matrix |-> MatIdentity, tree |-> "data"],
     [matrix |-> Scale(RHalf, P1), tree |-> "data"],
     [matrix |-> Scale(Rat(1, 20), Zero3), tree |-> "data"]}

HintsChoices ==
    {[NoHints EXCEPT !.point_num = 2],
     [positions |-> [has |-> TRUE, values |-> <<P1, P2>>],
      deform_mats |-> [has |-> TRUE, values |-> <<copy_m3_m4(MatIdentity),
                                                  copy_m3_m4(Scale(RHalf, Zero3))>>],
      point_num |-> 2]}

GeometryChoices ==
    {GeometryEmpty,
     [GeometryEmpty EXCEPT !.has = {"mesh", "curves"}, !.mesh = <<P1, P2>>,
                           !.curves = <<P2>>]}
    \cup {[GeometryEmpty EXCEPT !.has = {"volume"}, !.volume = <<g1, g2>>] :
             g1 \in GridChoices, g2 \in GridChoices}
    \cup {[GeometryEmpty EXCEPT
              !.has = {"pointcloud", "instances", "grease_pencil", "volume"},
              !.pointcloud = [positions |-> <<P1, P2>>,
                              bounds |-> [cached |-> c, min |-> P2, max |-> P1]],
              !.instances = <<MatIdentity, Scale(RInt(2), P2)>>,
              !.grease_pencil = <<Scale(ROne, P1)>>,
              !.volume = <<[matrix |-> MatIdentity, tree |-> "data"]>>] :
             c \in BOOLEAN}
    \cup {[GeometryEmpty EXCEPT
              !.has = {"curves", "curve_edit_hints", "grease_pencil_edit_hints",
                       "gizmo_edit_hints"},
              !.curves = <<P1, P2>>,
              !.curve_edit_hints = h,
              !.grease_pencil_edit_hints =
                  [has_drawing_hints |-> d, drawing_hints |-> IF d THEN <<h>> ELSE <<>>],
              !.gizmo_edit_hints = <<Scale(ROne, P1)>>] :
             h \in HintsChoices, d \in BOOLEAN}

\* The matrices a caller may pass: identity, translation, scale, quarter turn
\* about Z, and matrices of zero and of very small determinant.
TransformChoices ==
    {MatIdentity, from_location(P1), Scale(RInt(2), Zero3),
     Mat(AxisY, mul_v3_fl(AxisX, RNeg(ROne)), AxisZ, P2),
     Mat(AxisX, AxisY, Zero3, Zero3),
     Scale(Rat(1, 20), P1)}

\* The translations a caller may pass.
TranslationChoices == {Zero3, P1, P2}

\* For each grid, whether set_transform_matrix throws.
ThrowsChoices == [1..2 -> BOOLEAN]

\* The length of the position arrays the parallel loops run on.
NumPositions == 3

\* The position array of a parallel loop.
PositionsInput == [i \in 1..NumPositions |-> <<RInt(i), RInt(2 * i), RNeg(RInt(i))>>]

\* The calls of translate_positions and transform_positions.
LoopChoices ==
    {[call |-> "translate_positions", transform |-> from_location(P1)],
     [call |-> "transform_positions", transform |-> Scale(RInt(2), P2)],
     [call |-> "transform_positions",
      transform |-> Mat(AxisY, mul_v3_fl(AxisX, RNeg(ROne)), AxisZ, P2)]}

(* ------------------------------------------------------------------ *)
(* source/blender/editors/interface/eyedroppers/eyedropper_driver.cc   *)
(* ------------------------------------------------------------------ *)

\* struct DriverDropper as MEM_new leaves it.
DriverDropperNew == [ptr |-> "nullptr", prop |-> "nullptr", index |-> 0, is_undo |-> FALSE]

\* UI_context_active_but_prop_get: ptr, prop and index of the active button when
\* it has RNA data, zeroes otherwise.
UI_context_active_but_prop_get(but) ==
    IF ~but.is_null /\ but.rnapoin_data
    THEN [DriverDropperNew EXCEPT !.ptr = "data",
                                  !.prop = IF but.rnaprop THEN "prop" ELSE "nullptr",
                                  !.index = but.rnaindex]
    ELSE DriverDropperNew

\* WM_cursor_modal_set(win, val): the cursor shown is remembered once and
\* replaced by the modal cursor.
WM_cursor_modal_set(win, val) ==
    [cursor |-> val,
     lastcursor |-> IF win.lastcursor = "NONE" THEN win.cursor ELSE win.lastcursor,
     modalcursor |-> val]

\* WM_cursor_modal_restore(win): the remembered cursor, when there is one, is
\* shown again.
WM_cursor_modal_restore(win) ==
    [cursor |-> IF win.lastcursor # "NONE" THEN win.lastcursor ELSE win.cursor,
     lastcursor |-> "NONE", modalcursor |-> "NONE"]

\* The DriverDropper of the session is allocated.
Live(w) == w.news - w.deletes = 1

\* driverdropper_init not freeing the DriverDropper when it fails.
driverdropper_init_Leak(w) ==
    Bind(UI_context_active_but_prop_get(w.but),
         LAMBDA ddr :
            IF \/ ddr.ptr = "nullptr" \/ ddr.prop = "nullptr"
               \/ ~w.but.driver_editable \/ "UI_BUT_DRIVEN" \in w.but.flag
            THEN [ok |-> FALSE, w |-> [w EXCEPT !.news = @ + 1]]
            ELSE [ok |-> TRUE,
                  w |-> [w EXCEPT !.news = @ + 1, !.customdata = "ddr",
                                  !.ddr = [ddr EXCEPT !.is_undo =
                                                         "UI_BUT_UNDO" \in w.but.flag]]])

\* driverdropper_init: [ok, w].
driverdropper_init(w) ==
    Bind(UI_context_active_but_prop_get(w.but),
         LAMBDA ddr :
            IF \/ ddr.ptr = "nullptr" \/ ddr.prop = "nullptr"
               \/ ~w.but.driver_editable \/ "UI_BUT_DRIVEN" \in w.but.flag
            THEN [ok |-> FALSE, w |-> [w EXCEPT !.news = @ + 1, !.deletes = @ + 1]]
            ELSE [ok |-> TRUE,
                  w |-> [w EXCEPT !.news = @ + 1, !.customdata = "ddr",
                                  !.ddr = [ddr EXCEPT !.is_undo =
                                                         "UI_BUT_UNDO" \in w.but.flag]]])

\* driverdropper_exit
driverdropper_exit(w) ==
    [w EXCEPT !.win = WM_cursor_modal_restore(@),
              !.customdata = "nullptr",
              !.deletes = IF w.customdata # "nullptr" THEN @ + 1 ELSE @]

\* driverdropper_sample sending the updates whatever ANIM_add_driver_with_target
\* reported.
driverdropper_sample_AlwaysUpdates(w, but, success) ==
    IF but.is_null THEN w
    ELSE IF but.target_path /\ w.dst_path
    THEN [w EXCEPT !.add_calls = @ + 1,
                   !.drivers = IF success THEN @ + 1 ELSE @,
                   !.updates = @ + 1]
    ELSE w

\* driverdropper_sample: but is the property button under the mouse, success
\* what ANIM_add_driver_with_target reports.
driverdropper_sample(w, but, success) ==
    IF but.is_null THEN w
    ELSE IF but.target_path /\ w.dst_path
    THEN [w EXCEPT !.add_calls = @ + 1,
                   !.drivers = IF success THEN @ + 1 ELSE @,
                   !.updates = IF success THEN @ + 1 ELSE @]
    ELSE w

\* driverdropper_cancel
driverdropper_cancel(w) == driverdropper_exit(w)

\* What a read of ddr->is_undo yields: the field while the DriverDropper is
\* allocated, any value once it is freed.
ReadIsUndo(w) == IF Live(w) THEN {w.ddr.is_undo} ELSE BOOLEAN

\* driverdropper_modal reading ddr->is_undo after driverdropper_exit.
driverdropper_modal_ReadAfterExit(w, event, but, success) ==
    IF event.type = "EVT_MODAL_MAP" /\ event.val = "EYE_MODAL_CANCEL"
    THEN {[driverdropper_cancel(w) EXCEPT !.ret = "OPERATOR_CANCELLED"]}
    ELSE IF event.type = "EVT_MODAL_MAP" /\ event.val = "EYE_MODAL_SAMPLE_CONFIRM"
    THEN {[driverdropper_exit(driverdropper_sample(w, but, success)) EXCEPT
              !.ret = IF is_undo THEN "OPERATOR_FINISHED" ELSE "OPERATOR_CANCELLED",
              !.read_live = FALSE] :
             is_undo \in ReadIsUndo(driverdropper_exit(driverdropper_sample(w, but, success)))}
    ELSE {[w EXCEPT !.ret = "OPERATOR_RUNNING_MODAL"]}

\* driverdropper_modal: the worlds it may leave, with the status it returns.
driverdropper_modal(w, event, but, success) ==
    IF event.type = "EVT_MODAL_MAP" /\ event.val = "EYE_MODAL_CANCEL"
    THEN {[driverdropper_cancel(w) EXCEPT !.ret = "OPERATOR_CANCELLED"]}
    ELSE IF event.type = "EVT_MODAL_MAP" /\ event.val = "EYE_MODAL_SAMPLE_CONFIRM"
    THEN {[driverdropper_exit(driverdropper_sample(w, but, success)) EXCEPT
              !.ret = IF is_undo THEN "OPERATOR_FINISHED" ELSE "OPERATOR_CANCELLED",
              !.read_live = Live(w)] :
             is_undo \in ReadIsUndo(w)}
    ELSE {[w EXCEPT !.ret = "OPERATOR_RUNNING_MODAL"]}

\* driverdropper_invoke
driverdropper_invoke(w) ==
    Bind(driverdropper_init(w),
         LAMBDA i :
            IF i.ok
            THEN [i.w EXCEPT !.active_but = FALSE,
                             !.win = WM_cursor_modal_set(@, "WM_CURSOR_EYEDROPPER"),
                             !.modal_handler = TRUE,
                             !.ret = "OPERATOR_RUNNING_MODAL"]
            ELSE [i.w EXCEPT !.ret = "OPERATOR_CANCELLED"])

\* driverdropper_exec
driverdropper_exec(w) ==
    Bind(driverdropper_init(w),
         LAMBDA i :
            IF i.ok
            THEN [driverdropper_exit(i.w) EXCEPT !.ret = "OPERATOR_FINISHED"]
            ELSE [i.w EXCEPT !.ret = "OPERATOR_CANCELLED"])

\* Inputs.  The button that is active when the operator is called.
Button(rnapoin_data, rnaprop, driver_editable, flag) ==
    [is_null |-> FALSE, rnapoin_data |-> rnapoin_data, rnaprop |-> rnaprop,
     rnaindex |-> 1, driver_editable |-> driver_editable, flag |-> flag]

\* uiBut *but == nullptr
NullBut == [Button(FALSE, FALSE, FALSE, {}) EXCEPT !.is_null = TRUE]

ActiveButChoices ==
    {NullBut, Button(FALSE, FALSE, FALSE, {}), Button(TRUE, FALSE, FALSE, {}),
     Button(TRUE, TRUE, FALSE, {"UI_BUT_UNDO"})}
    \cup {Button(TRUE, TRUE, TRUE, flag) : flag \in SUBSET {"UI_BUT_DRIVEN", "UI_BUT_UNDO"}}

\* The property button under the mouse at a confirm, and whether its path resolves.
UnderMouseChoices ==
    {[is_null |-> TRUE, target_path |-> FALSE], [is_null |-> FALSE, target_path |-> TRUE],
     [is_null |-> FALSE, target_path |-> FALSE]}

\* The events the modal handler may be given.
DropperEvents ==
    {[type |-> "EVT_MODAL_MAP", val |-> v] :
        v \in {"EYE_MODAL_CANCEL", "EYE_MODAL_SAMPLE_CONFIRM", "EYE_MODAL_SAMPLE_BEGIN",
               "EYE_MODAL_SAMPLE_RESET"}}
    \cup {[type |-> "MOUSEMOVE", val |-> "KM_NOTHING"],
          [type |-> "LEFTMOUSE", val |-> "KM_PRESS"]}

\* The modal events delivered to one session are counted up to this many.
MaxModalEvents == 3

\* The operator before any callback ran: no session, nothing allocated.
DropperWorld(but, cursor, dst_path) ==
    [but |-> but, dst_path |-> dst_path, active_but |-> ~but.is_null,
     customdata |-> "nullptr", ddr |-> DriverDropperNew, news |-> 0, deletes |-> 0,
     win |-> [cursor |-> cursor, lastcursor |-> "NONE", modalcursor |-> "NONE"],
     modal_handler |-> FALSE, add_calls |-> 0, drivers |-> 0, updates |-> 0,
     read_live |-> TRUE, ret |-> "NONE"]

\* No callback ran yet on world w.
DropperFresh(w) ==
    [w |-> w, pre |-> w, handler |-> "none", events |-> 0,
     event |-> [type |-> "NONE", val |-> "NONE"], under |-> [is_null |-> TRUE, target_path |-> FALSE], success |-> FALSE]

\* The eyedropper is not involved.
DropperIdle == DropperFresh(DropperWorld(NullBut, "WM_CURSOR_DEFAULT", FALSE))

(* ------------------------------------------------------------------ *)
(* State                                                               *)
(* ------------------------------------------------------------------ *)

VARIABLES
    cps,        \* the curve paint tool settings
    cu,         \* the edited Curve: is_3d (CU_3D), actnu, actvert
    nurblist,   \* object_editcurve_get(obedit): the splines of the edited curve
    op,         \* the wmOperator: customdata set, reports, properties, modal handler
    cdd,        \* *op->customdata (CurveDrawDataZero when there is none)
    pool,       \* cdd->stroke_elem_pool in iteration order
    ret,        \* what the last operator callback returned
    fit,        \* the curve_fit_nd calls of the last curve_draw_exec
    aux,        \* history: how samples were resolved, and the last handler's locals
    geo,        \* a bke::GeometrySet and the transform.cc call made on it
    dropper     \* the driver eyedropper: its operator, window and last callback

vars == <<cps, cu, nurblist, op, cdd, pool, ret, fit, aux, geo, dropper>>

FitNone ==
    [calls |-> 0, corners_calls |-> 0, corners |-> "nullptr", coords |-> <<>>, cyclic |-> FALSE, result |-> 0,
     corners_index |-> <<>>]

AuxZero ==
    [log |-> <<>>, pre_len |-> 0, pre_nurbs |-> 0, handler |-> "none",
     exec_pool |-> <<>>, pool0 |-> <<>>, pool_start |-> <<>>, pool_end |-> <<>>,
     lengths |-> <<>>, use_substeps |-> FALSE, event |-> "NONE"]

\* A geometry set on which no function of transform.cc was called yet.
GeoIdle(geometry, with_openvdb) ==
    [geometry |-> geometry, with_openvdb |-> with_openvdb, call |-> "none",
     transform |-> MatIdentity, before |-> geometry, throws |-> <<FALSE, FALSE>>,
     par |-> ParIdle,
     result |-> [has |-> FALSE, value |-> NoErrors], errors |-> NoErrors]

\* How the operator is called: interactively (the properties it was given, and
\* whether it waits for a press), or with a recorded stroke.
CallChoices ==
    {[props |-> PropsUnset, wait |-> w, stroke_is_set |-> FALSE, stroke |-> <<>>] :
        w \in BOOLEAN}
    \cup {[props |-> p, wait |-> TRUE, stroke_is_set |-> FALSE, stroke |-> <<>>] :
             p \in PropsChoices}
    \cup {[props |-> p, wait |-> TRUE, stroke_is_set |-> TRUE, stroke |-> st] :
             p \in PropsChoices, st \in StrokeChoices}

\* The edited curve: 2D or 3D, and the splines it holds.
CurveChoices ==
    {[is_3d |-> TRUE, nurbs |-> <<ExistingNurb>>],
     [is_3d |-> FALSE, nurbs |-> <<>>]}

Init ==
    /\ cps \in CpsChoices
    /\ \E c \in CurveChoices :
          /\ nurblist = c.nurbs
          /\ cu = [is_3d |-> c.is_3d, actnu |-> Len(c.nurbs), actvert |-> Len(c.nurbs) - 1]
    /\ \E call \in CallChoices :
          op = [customdata |-> FALSE, reports |-> {}, props |-> call.props,
                wait_for_input |-> call.wait, stroke_is_set |-> call.stroke_is_set,
                stroke |-> call.stroke, modal_handler |-> FALSE]
    /\ cdd = CurveDrawDataZero
    /\ pool = <<>>
    /\ ret = "NONE"
    /\ fit = FitNone
    /\ aux = AuxZero
    /\ dropper = DropperIdle
    /\ geo = GeoIdle(GeometryEmpty, TRUE)

(* ------------------------------------------------------------------ *)
(* Operator callbacks                                                  *)
(* ------------------------------------------------------------------ *)

Report(o, msg) == [o EXCEPT !.reports = @ \cup {msg}]

\* The fit results the library may give curve_draw_exec on the rows coords.
ExecOutcomes(coords, use_cyclic) ==
    IF cps.curve_type = "CU_BEZIER"
    THEN FitOutcomes(Len(coords), CalcCyclic(Len(coords), use_cyclic))
    ELSE {[result |-> 0, corners_index |-> <<>>]}

\* curve_draw_exec on pool1 with properties props1: the curve, the fit record and
\* the session after curve_draw_exit.
ExecDone(o1, props1, cdd1, pool1, aux1) ==
    \E outcome \in ExecOutcomes(FitCoords(pool1, UsePressureRadius(cps)),
                                PropGet(props1, "use_cyclic")) :
       \E e \in {curve_draw_exec(cps, cu, cdd1, props1, pool1, nurblist, outcome)} :
          /\ nurblist' = e.nurblist
          /\ cu' = e.cu
          /\ fit' = e.fit
          /\ op' = curve_draw_exit(o1)
          /\ cdd' = CurveDrawDataZero
          /\ pool' = <<>>
          /\ ret' = "OPERATOR_FINISHED"
          /\ aux' = [aux1 EXCEPT !.pre_nurbs = Len(nurblist), !.exec_pool = pool1]
          /\ UNCHANGED <<cps, geo, dropper>>

\* curve_draw_exec entered with no session and curve_draw_init not testing
\* RNA_collection_is_empty.
ExecNoSession_NoEmptyCheck(handler) ==
    ExecDone(op, op.props, curve_draw_init(cps),
             curve_draw_stroke_from_operator(op.stroke, pool),
             [AuxZero EXCEPT !.handler = handler])

\* curve_draw_exec(C, op) entered with op->customdata == nullptr.
ExecNoSession(handler) ==
    IF op.stroke = <<>>
    THEN \* curve_draw_init(is_invoke = false) frees cdd and fails
         /\ op' = Report(op, "The \"stroke\" cannot be empty")
         /\ ret' = "OPERATOR_CANCELLED"
         /\ aux' = [AuxZero EXCEPT !.handler = handler, !.pre_nurbs = Len(nurblist)]
         /\ UNCHANGED <<cps, cu, nurblist, cdd, pool, fit, geo, dropper>>
    ELSE ExecDone(op, op.props, curve_draw_init(cps),
                  curve_draw_stroke_from_operator(op.stroke, pool),
                  [AuxZero EXCEPT !.handler = handler])

\* ot->exec called on a fresh operator.
Exec ==
    /\ ret = "NONE"
    /\ ExecNoSession("exec")

\* InvokeProject setting use_plane whether or not the depth buffer is used.
InvokeProject_PlaneAlways(c0, use_depth, plane_no, plane_co) ==
    [c0 EXCEPT
        !.depths = use_depth,
        !.project.use_depth = use_depth,
        !.project.use_plane = TRUE,
        !.sample.use_substeps = use_depth /\ c0.curve_type # "CU_POLY",
        !.project.plane = <<plane_no, RNeg(dot_v3v3(plane_no, plane_co))>>]

\* The projection setup of curve_draw_invoke once use_depth is known.
InvokeProject(c0, use_depth, plane_no, plane_co) ==
    [c0 EXCEPT
        !.depths = use_depth,
        !.project.use_depth = use_depth,
        !.project.use_plane = ~use_depth,
        !.sample.use_substeps = use_depth /\ c0.curve_type # "CU_POLY",
        !.project.plane = IF ~use_depth
                          THEN <<plane_no, RNeg(dot_v3v3(plane_no, plane_co))>> ELSE @]

\* The CurveDrawData curve_draw_invoke sets up before the first sample.
InvokeSetup(event, shading_solid, depths_ok) ==
    Bind(ED_view3d_win_to_3d(ViewCenter, <<RInt(event.mval[1]), RInt(event.mval[2])>>),
         LAMBDA fallback :
            InvokeProject(
                [curve_draw_init(cps) EXCEPT
                    !.prev.location_world = fallback,
                    !.prev.location_world_valid = fallback,
                    !.draw_handle_view = TRUE],
                /\ cu.is_3d
                /\ cps.depth_mode = "CURVE_PAINT_PROJECT_SURFACE" /\ shading_solid
                /\ depths_ok,
                normalize_v3(IF cu.is_3d THEN ViewZ ELSE mul_v3_fl(AxisZ, ObScale)),
                IF cu.is_3d THEN CursorLocation ELSE ObLoc))

\* ot->invoke.
Invoke(event, viewport_ok, shading_solid, depths_ok) ==
    /\ ret = "NONE"
    /\ IF op.stroke_is_set
       THEN ExecNoSession("invoke")
       ELSE IF ~viewport_ok
       THEN /\ op' = Report(op, "Unable to access 3D viewport")
            /\ ret' = "OPERATOR_CANCELLED"
            /\ aux' = [AuxZero EXCEPT !.handler = "invoke", !.pre_nurbs = Len(nurblist)]
            /\ UNCHANGED <<cps, cu, nurblist, cdd, pool, fit, geo, dropper>>
       ELSE \E c1 \in {InvokeSetup(event, shading_solid, depths_ok)} :
            \E s1 \in {IF ~op.wait_for_input
                       THEN curve_draw_event_add_first(cps, c1, <<>>, <<>>, event)
                       ELSE [cdd |-> c1, pool |-> <<>>, log |-> <<>>]} :
               /\ op' = [(IF cu.is_3d /\ cps.depth_mode = "CURVE_PAINT_PROJECT_SURFACE"
                             /\ shading_solid /\ ~depths_ok
                          THEN Report(op, "Unable to access depth buffer, using view plane")
                          ELSE op)
                         EXCEPT !.customdata = TRUE, !.modal_handler = TRUE]
               /\ cdd' = s1.cdd
               /\ pool' = s1.pool
               /\ ret' = "OPERATOR_RUNNING_MODAL"
               /\ aux' = [AuxZero EXCEPT !.handler = "invoke", !.log = s1.log,
                                         !.pre_nurbs = Len(nurblist),
                                         !.use_substeps = c1.sample.use_substeps]
               /\ UNCHANGED <<cps, cu, nurblist, fit, geo, dropper>>

InModal == ret = "OPERATOR_RUNNING_MODAL" /\ op.customdata

\* curve_draw_modal returning OPERATOR_RUNNING_MODAL without touching the session.
ModalNoop ==
    /\ ret' = "OPERATOR_RUNNING_MODAL"
    /\ UNCHANGED <<cps, cu, nurblist, op, cdd, pool, fit, aux, geo, dropper>>

ModalAdded(s, event) ==
    /\ cdd' = s.cdd
    /\ pool' = s.pool
    /\ ret' = "OPERATOR_RUNNING_MODAL"
    /\ aux' = [aux EXCEPT !.handler = "modal", !.pre_len = Len(pool), !.log = s.log,
                          !.use_substeps = cdd.sample.use_substeps,
                          !.event = event.type]
    /\ UNCHANGED <<cps, cu, nurblist, op, fit, geo, dropper>>

\* ModalRelease without the test `event->type == cdd->init_event_type`.
ModalRelease_AnyType(event) ==
    /\ InModal
    /\ event.val = "KM_RELEASE"
    /\ \E pre \in {curve_draw_exec_precalc(cps, cdd, op.props, pool)} :
       \E stroke1 \in {curve_draw_stroke_to_operator(op.stroke, pre.pool)} :
          ExecDone([op EXCEPT !.props = pre.props, !.stroke = stroke1,
                              !.stroke_is_set = TRUE],
                   pre.props, cdd,
                   IF Len(pre.pool) = 0
                   THEN curve_draw_stroke_from_operator(stroke1, pre.pool) ELSE pre.pool,
                   [aux EXCEPT !.handler = "release", !.pre_len = Len(pool),
                               !.pool0 = pool, !.pool_start = pre.start,
                               !.pool_end = pre.pool, !.lengths = pre.lengths])

\* event->type == cdd->init_event_type, event->val == KM_RELEASE:
\* curve_draw_exec_precalc, curve_draw_stroke_to_operator, curve_draw_exec
ModalRelease(event) ==
    /\ InModal
    /\ event.type = cdd.init_event_type
    /\ event.val = "KM_RELEASE"
    /\ \E pre \in {curve_draw_exec_precalc(cps, cdd, op.props, pool)} :
       \E stroke1 \in {curve_draw_stroke_to_operator(op.stroke, pre.pool)} :
          ExecDone([op EXCEPT !.props = pre.props, !.stroke = stroke1,
                              !.stroke_is_set = TRUE],
                   pre.props, cdd,
                   IF Len(pre.pool) = 0
                   THEN curve_draw_stroke_from_operator(stroke1, pre.pool) ELSE pre.pool,
                   [aux EXCEPT !.handler = "release", !.pre_len = Len(pool),
                               !.pool0 = pool, !.pool_start = pre.start,
                               !.pool_end = pre.pool, !.lengths = pre.lengths])

\* event->type == cdd->init_event_type, any other event->val
ModalInitTypeHeld(event) ==
    /\ InModal
    /\ event.type = cdd.init_event_type
    /\ event.val # "KM_RELEASE"
    /\ ModalNoop

\* ModalCancel deselecting the existing splines as curve_draw_exec does.
ModalCancel_Deselect(event) ==
    /\ InModal
    /\ event.type # cdd.init_event_type
    /\ event.type \in {"EVT_ESCKEY", "RIGHTMOUSE"}
    /\ op' = curve_draw_exit(op)
    /\ cdd' = CurveDrawDataZero
    /\ pool' = <<>>
    /\ ret' = "OPERATOR_CANCELLED"
    /\ aux' = [AuxZero EXCEPT !.handler = "cancel", !.pre_len = Len(pool),
                              !.pre_nurbs = Len(nurblist)]
    /\ nurblist' = ED_curve_deselect_all_multi(nurblist)
    /\ UNCHANGED <<cps, cu, fit, geo, dropper>>

\* EVT_ESCKEY or RIGHTMOUSE: curve_draw_cancel
ModalCancel(event) ==
    /\ InModal
    /\ event.type # cdd.init_event_type
    /\ event.type \in {"EVT_ESCKEY", "RIGHTMOUSE"}
    /\ op' = curve_draw_exit(op)
    /\ cdd' = CurveDrawDataZero
    /\ pool' = <<>>
    /\ ret' = "OPERATOR_CANCELLED"
    /\ aux' = [AuxZero EXCEPT !.handler = "cancel", !.pre_len = Len(pool),
                              !.pre_nurbs = Len(nurblist)]
    /\ UNCHANGED <<cps, cu, nurblist, fit, geo, dropper>>

\* LEFTMOUSE, KM_PRESS: curve_draw_event_add_first
ModalPress(event) ==
    /\ InModal
    /\ event.type # cdd.init_event_type
    /\ event.type = "LEFTMOUSE"
    /\ event.val = "KM_PRESS"
    /\ Len(pool) < MaxSamples
    /\ ModalAdded(curve_draw_event_add_first(cps, cdd, pool, aux.log, event), event)

\* ModalMotion without the test `cdd->state == CURVE_DRAW_PAINTING`.
ModalMotion_WhileIdle(event) ==
    /\ InModal
    /\ event.type # cdd.init_event_type
    /\ event.type = "MOUSEMOVE"
    /\ RGt(len_squared_v2v2(<<RInt(event.mval[1]), RInt(event.mval[2])>>, cdd.prev.mval),
           square_f(STROKE_SAMPLE_DIST_MIN_PX))
    /\ Len(pool) < MaxSamples
    /\ ModalAdded(curve_draw_event_add(cdd, pool, aux.log, event), event)

\* Mouse motion while painting, farther than STROKE_SAMPLE_DIST_MIN_PX from the
\* previous raw sample: curve_draw_event_add
ModalMotion(event) ==
    /\ InModal
    /\ event.type # cdd.init_event_type
    /\ event.type = "MOUSEMOVE"
    /\ cdd.state = "CURVE_DRAW_PAINTING"
    /\ RGt(len_squared_v2v2(<<RInt(event.mval[1]), RInt(event.mval[2])>>, cdd.prev.mval),
           square_f(STROKE_SAMPLE_DIST_MIN_PX))
    /\ Len(pool) < MaxSamples
    /\ ModalAdded(curve_draw_event_add(cdd, pool, aux.log, event), event)

\* Every other event: LEFTMOUSE that is no press, motion while idle or within
\* STROKE_SAMPLE_DIST_MIN_PX, and event types the handler does not name.
ModalIgnored(event) ==
    /\ InModal
    /\ event.type # cdd.init_event_type
    /\ event.type \notin {"EVT_ESCKEY", "RIGHTMOUSE"}
    /\ \/ event.type = "LEFTMOUSE" /\ event.val # "KM_PRESS"
       \/ /\ event.type = "MOUSEMOVE"
          /\ ~(/\ cdd.state = "CURVE_DRAW_PAINTING"
               /\ RGt(len_squared_v2v2(<<RInt(event.mval[1]), RInt(event.mval[2])>>,
                                       cdd.prev.mval),
                      square_f(STROKE_SAMPLE_DIST_MIN_PX)))
       \/ event.type \notin {"LEFTMOUSE", "MOUSEMOVE"}
    /\ ModalNoop

\* Events that carry a pointer position and a tablet pressure.
PointerEvents(types, vals, samples) ==
    {Event(t, v, s.mval, s.pressure) : t \in types, v \in vals, s \in samples}

\* Events of which the handler reads the type and value only.
KeyEvents(types, vals) == {Event(t, v, <<0, 0>>, ROne) : t \in types, v \in vals}

Next ==
    \/ Exec
    \/ \E event \in PointerEvents({"LEFTMOUSE", "EVT_DKEY"}, {"KM_PRESS"}, InvokeSamples),
          viewport_ok \in BOOLEAN, shading_solid \in BOOLEAN, depths_ok \in BOOLEAN :
          Invoke(event, viewport_ok, shading_solid, depths_ok)
    \/ \E event \in KeyEvents(EventTypes, {"KM_RELEASE"}) : ModalRelease(event)
    \/ \E event \in KeyEvents(EventTypes, {"KM_PRESS", "KM_NOTHING"}) :
          ModalInitTypeHeld(event)
    \/ \E event \in KeyEvents({"EVT_ESCKEY", "RIGHTMOUSE"}, {"KM_PRESS"}) :
          ModalCancel(event)
    \/ \E event \in PointerEvents({"LEFTMOUSE"}, {"KM_PRESS"}, PointerSamples) : ModalPress(event)
    \/ \E event \in PointerEvents({"MOUSEMOVE"}, {"KM_NOTHING"}, PointerSamples) : ModalMotion(event)
    \/ \E event \in PointerEvents({"LEFTMOUSE", "MOUSEMOVE", "EVT_DKEY"},
                                  {"KM_RELEASE", "KM_NOTHING"}, PointerSamples) :
          ModalIgnored(event)

Spec == Init /\ [][Next]_vars

(* ------------------------------------------------------------------ *)
(* Calls of transform.cc                                               *)
(* ------------------------------------------------------------------ *)

\* The curve operator is not involved: its state is that of a fresh operator.
InitGeo ==
    /\ cps = CpsDefault
    /\ cu = [is_3d |-> TRUE, actnu |-> 0, actvert |-> -1]
    /\ nurblist = <<>>
    /\ op = [customdata |-> FALSE, reports |-> {}, props |-> PropsUnset,
             wait_for_input |-> TRUE, stroke_is_set |-> FALSE, stroke |-> <<>>,
             modal_handler |-> FALSE]
    /\ cdd = CurveDrawDataZero
    /\ pool = <<>>
    /\ ret = "NONE"
    /\ fit = FitNone
    /\ aux = AuxZero
    /\ dropper = DropperIdle
    /\ \E geometry \in GeometryChoices, with_openvdb \in BOOLEAN :
          geo = GeoIdle(geometry, with_openvdb)

\* transform_geometry(geometry, transform)
TransformGeometry(transform, throws) ==
    /\ geo.call = "none"
    /\ \E r \in {transform_geometry(geo.geometry, transform, throws, geo.with_openvdb)} :
          geo' = [geo EXCEPT !.geometry = r.geometry, !.call = "transform_geometry",
                             !.transform = transform, !.throws = throws,
                             !.result = r.result,
                             !.errors = r.errors]
    /\ UNCHANGED <<cps, cu, nurblist, op, cdd, pool, ret, fit, aux, dropper>>

\* translate_geometry(geometry, translation)
TranslateGeometry(translation, throws) ==
    /\ geo.call = "none"
    /\ geo' = [geo EXCEPT
                  !.geometry = translate_geometry(geo.geometry, translation, throws,
                                                  geo.with_openvdb),
                  !.call = "translate_geometry",
                  !.transform = from_location(translation), !.throws = throws]
    /\ UNCHANGED <<cps, cu, nurblist, op, cdd, pool, ret, fit, aux, dropper>>

NextGeo ==
    \/ \E transform \in TransformChoices, throws \in ThrowsChoices :
          TransformGeometry(transform, throws)
    \/ \E translation \in TranslationChoices, throws \in ThrowsChoices :
          TranslateGeometry(translation, throws)

SpecGeo == InitGeo /\ [][NextGeo]_vars

(* ------------------------------------------------------------------ *)
(* The parallel loops of translate_positions and transform_positions   *)
(* ------------------------------------------------------------------ *)

\* translate_positions or transform_positions was called and parallel_for has
\* split the range into chunks; no chunk has run yet.
InitPar ==
    /\ cps = CpsDefault
    /\ cu = [is_3d |-> TRUE, actnu |-> 0, actvert |-> -1]
    /\ nurblist = <<>>
    /\ op = [customdata |-> FALSE, reports |-> {}, props |-> PropsUnset,
             wait_for_input |-> TRUE, stroke_is_set |-> FALSE, stroke |-> <<>>,
             modal_handler |-> FALSE]
    /\ cdd = CurveDrawDataZero
    /\ pool = <<>>
    /\ ret = "NONE"
    /\ fit = FitNone
    /\ aux = AuxZero
    /\ dropper = DropperIdle
    /\ \E loop \in LoopChoices, cuts \in SUBSET (1..(NumPositions - 1)) :
          geo = [GeoIdle(GeometryEmpty, TRUE) EXCEPT
                    !.call = loop.call, !.transform = loop.transform,
                    !.par = [before |-> PositionsInput, positions |-> PositionsInput,
                             writes |-> [i \in 1..NumPositions |-> 0],
                             chunks |-> Chunks(NumPositions, cuts)]]

\* The thread running chunk c reads the element its loop is at.
ChunkLoad(c) ==
    /\ ~geo.par.chunks[c].held
    /\ geo.par.chunks[c].next \in Slice(Len(geo.par.positions), geo.par.chunks[c].range)
    /\ geo' = [geo EXCEPT !.par.chunks[c].held = TRUE,
                          !.par.chunks[c].value = geo.par.positions[geo.par.chunks[c].next]]
    /\ UNCHANGED <<cps, cu, nurblist, op, cdd, pool, ret, fit, aux, dropper>>

\* The thread running chunk c writes the element back and steps to the next.
ChunkStore(c) ==
    /\ geo.par.chunks[c].held
    /\ geo' = [geo EXCEPT
                  !.par.positions[geo.par.chunks[c].next] =
                      UpdatePosition(geo.call, geo.par.chunks[c].value, geo.transform),
                  !.par.writes[geo.par.chunks[c].next] = @ + 1,
                  !.par.chunks[c].held = FALSE,
                  !.par.chunks[c].next = @ + 1]
    /\ UNCHANGED <<cps, cu, nurblist, op, cdd, pool, ret, fit, aux, dropper>>

NextPar ==
    \/ \E c \in DOMAIN geo.par.chunks : ChunkLoad(c)
    \/ \E c \in DOMAIN geo.par.chunks : ChunkStore(c)

SpecPar == InitPar /\ [][NextPar]_vars

(* ------------------------------------------------------------------ *)
(* The driver eyedropper operator                                      *)
(* ------------------------------------------------------------------ *)

\* The curve operator and transform.cc are not involved.
InitDropper ==
    /\ cps = CpsDefault
    /\ cu = [is_3d |-> TRUE, actnu |-> 0, actvert |-> -1]
    /\ nurblist = <<>>
    /\ op = [customdata |-> FALSE, reports |-> {}, props |-> PropsUnset,
             wait_for_input |-> TRUE, stroke_is_set |-> FALSE, stroke |-> <<>>,
             modal_handler |-> FALSE]
    /\ cdd = CurveDrawDataZero
    /\ pool = <<>>
    /\ ret = "NONE"
    /\ fit = FitNone
    /\ aux = AuxZero
    /\ geo = GeoIdle(GeometryEmpty, TRUE)
    /\ \E but \in ActiveButChoices, dst_path \in BOOLEAN,
          cursor \in {"WM_CURSOR_DEFAULT", "WM_CURSOR_EDIT"} :
          dropper = DropperFresh(DropperWorld(but, cursor, dst_path))

\* The callback named handler took the world from dropper.w to w1.
DropperCalled(handler, w1) ==
    /\ dropper' = [dropper EXCEPT !.w = w1, !.pre = dropper.w, !.handler = handler]
    /\ UNCHANGED <<cps, cu, nurblist, op, cdd, pool, ret, fit, aux, geo>>

\* ot->invoke
DropperInvoke ==
    /\ dropper.w.ret = "NONE"
    /\ DropperCalled("invoke", driverdropper_invoke(dropper.w))

\* ot->exec
DropperExec ==
    /\ dropper.w.ret = "NONE"
    /\ DropperCalled("exec", driverdropper_exec(dropper.w))

\* ot->modal on one event; the window manager drops the handler once the
\* callback returns anything but OPERATOR_RUNNING_MODAL.
DropperModal(event, but, success) ==
    /\ dropper.w.modal_handler
    /\ dropper.events < MaxModalEvents
    /\ \E w1 \in driverdropper_modal(dropper.w, event, but, success) :
          /\ dropper' = [dropper EXCEPT
                            !.w = [w1 EXCEPT !.modal_handler =
                                                w1.ret = "OPERATOR_RUNNING_MODAL"],
                            !.pre = dropper.w, !.handler = "modal",
                            !.events = @ + 1, !.event = event,
                            !.under = but, !.success = success]
          /\ UNCHANGED <<cps, cu, nurblist, op, cdd, pool, ret, fit, aux, geo>>

\* ot->cancel, called by the window manager on a running operator.
DropperCancel ==
    /\ dropper.w.modal_handler
    /\ DropperCalled("cancel", [driverdropper_cancel(dropper.w) EXCEPT
                                   !.modal_handler = FALSE, !.ret = "OPERATOR_CANCELLED"])

NextDropper ==
    \/ DropperInvoke
    \/ DropperExec
    \/ \E event \in DropperEvents, but \in UnderMouseChoices, success \in BOOLEAN :
          DropperModal(event, but, success)
    \/ DropperCancel

SpecDropper == InitDropper /\ [][NextDropper]_vars

(* ------------------------------------------------------------------ *)
(* Properties of curve_draw_exec, curve_draw_invoke and curve_draw_modal *)
(* ------------------------------------------------------------------ *)

EmptyStrokeError == "The \"stroke\" cannot be empty"

\* The operator ran non-interactively: ot->exec, or ot->invoke with "stroke" set.
RanNonInteractive ==
    /\ ret # "NONE"
    /\ \/ aux.handler = "exec"
       \/ aux.handler = "invoke" /\ op.stroke_is_set

\* curve_draw_exec ran to its end on a CU_BEZIER session.
FinishedBezier == ret = "OPERATOR_FINISHED" /\ fit.calls = 1

\* The spline curve_draw_exec linked last into the curve.
LastNurb == nurblist[Len(nurblist)]

\* C1: in Bezier mode, when the fit call returns a non-zero status the curve holds
\* as many splines after the operator returned as before it: nothing is appended.
C1_FitFailureAddsNoSpline ==
    (FinishedBezier /\ fit.result # 0) => Len(nurblist) = aux.pre_nurbs

\* C2: a non-interactive run on a stroke collection with no samples reports the
\* empty-stroke error, returns OPERATOR_CANCELLED, leaves no session data and
\* leaves the curve as it was (no spline added, none deselected, active spline kept).
C2_EmptyStrokeCancelled ==
    (RanNonInteractive /\ op.stroke = <<>>) =>
        /\ EmptyStrokeError \in op.reports
        /\ ret = "OPERATOR_CANCELLED"
        /\ ~op.customdata
        /\ cdd = CurveDrawDataZero
        /\ pool = <<>>
        /\ Len(nurblist) = aux.pre_nurbs
        /\ nurblist \in {c.nurbs : c \in CurveChoices}
        /\ cu.actnu = Len(nurblist)
        /\ fit = FitNone

\* C2 witness: curve_draw_invoke with the stroke property set to an empty
\* collection has returned, on a curve that holds a spline.
C2_Witness ==
    /\ aux.handler = "invoke" /\ op.stroke_is_set /\ op.stroke = <<>>
    /\ ret = "OPERATOR_CANCELLED"
    /\ EmptyStrokeError \in op.reports
    /\ nurblist = <<ExistingNurb>>

\* A stroke collection of at least two samples that are all the same sample.
AllDuplicates(stroke) ==
    /\ Len(stroke) >= 2
    /\ \A i \in 1..Len(stroke) : stroke[i] = stroke[1]

\* C3: a non-empty stroke whose samples are all exact duplicates of one another is
\* rejected before fitting: the fit call is not made and no spline is added.
C3_AllDuplicatesRejected ==
    (RanNonInteractive /\ AllDuplicates(op.stroke)) =>
        /\ fit.calls = 0
        /\ Len(nurblist) = aux.pre_nurbs

\* The samples an event handler has added to the pool of the running session.
SamplesAdded ==
    /\ ret = "OPERATOR_RUNNING_MODAL"
    /\ \/ aux.handler = "modal"
       \/ aux.handler = "invoke" /\ ~op.wait_for_input

\* C4: every sample curve_draw_event_add appended, raw or synthesized, has a world
\* and a local position whether or not its projection succeeded; where it failed
\* the world position is the sample's pixel at the fallback depth
\* (prev.location_world_valid as it was when the sample was resolved); and the
\* event that met the failure still added its samples and left the operator
\* running modal with its session.
C4_EverySampleResolved ==
    SamplesAdded =>
        /\ op.customdata
        /\ Len(pool) > aux.pre_len
        /\ Len(aux.log) = Len(pool)
        /\ \A i \in 1..Len(pool) :
              /\ pool[i].location_local = world_to_object(pool[i].location_world)
              /\ ~aux.log[i].ok =>
                    pool[i].location_world =
                        ED_view3d_win_to_3d(aux.log[i].fallback, pool[i].mval)

\* C4 witness: one event added a synthesized substep and a raw endpoint whose
\* projections both failed, after a sample whose projection succeeded.
C4_Witness ==
    /\ SamplesAdded
    /\ aux.handler = "modal"
    /\ Len(pool) >= aux.pre_len + 2
    /\ \E i \in 1..aux.pre_len : aux.log[i].ok
    /\ ~aux.log[Len(pool)].ok /\ aux.log[Len(pool)].t = ROne
    /\ \E i \in (aux.pre_len + 1)..(Len(pool) - 1) :
          /\ ~aux.log[i].ok
          /\ aux.log[i].t # ROne
          /\ pool[i].location_world # Zero3

\* The squared screen distance between the raw sample the last event added and
\* the raw sample before it.
LastLenSq == len_squared_v2v2(pool[aux.pre_len].mval, pool[Len(pool)].mval)

\* The last event added a raw sample, substeps enabled, farther than
\* STROKE_SAMPLE_DIST_MAX_PX from the raw sample before it.
SubstepCase ==
    /\ ret = "OPERATOR_RUNNING_MODAL"
    /\ aux.handler = "modal"
    /\ aux.use_substeps
    /\ aux.pre_len >= 1
    /\ RGt(LastLenSq, square_f(STROKE_SAMPLE_DIST_MAX_PX))

\* The interpolation parameters of the substeps the last event added, in pool order.
SubstepParams == [i \in 1..(Len(pool) - aux.pre_len - 1) |-> aux.log[aux.pre_len + i].t]

\* C5: with substeps enabled and a raw sample at screen distance d > 3 px from
\* the previous one, ceil(ceil(sqrt(d^2)) / 3) - 1 substeps are inserted between
\* them, at parameters strictly increasing and strictly between 0 and 1.
C5_SubstepCount ==
    SubstepCase =>
        /\ Len(SubstepParams) = RCeil(Rat(CeilSqrt(LastLenSq), STROKE_SAMPLE_DIST_MAX_PX)) - 1
        /\ \A i \in 1..Len(SubstepParams) :
              /\ RGt(SubstepParams[i], RZero) /\ RLt(SubstepParams[i], ROne)
              /\ i > 1 => RGt(SubstepParams[i], SubstepParams[i - 1])

\* curve_draw_exec_precalc ran (the init event was released) on a stroke of
\* positive total length.
TaperCase ==
    /\ ret = "OPERATOR_FINISHED"
    /\ aux.handler = "release"
    /\ RGt(aux.lengths[Len(aux.lengths)], RZero)

\* T, the total arc length, and s * T, e * T
TaperT == aux.lengths[Len(aux.lengths)]
TaperStartMax == RMul(cps.radius_taper_start, TaperT)
TaperEndMax == RMul(cps.radius_taper_end, TaperT)

\* C6: with a taper-start fraction s # 0 and total length T > 0, the start pass
\* multiplies the pressure of every sample with L(i) < s * T by L(i) / (s * T) and
\* leaves the pressure of every other sample; with s = 1/2 a sample at a quarter
\* of the length has its pressure halved.
C6_TaperStart ==
    (TaperCase /\ cps.radius_taper_start # RZero) =>
        /\ Len(aux.pool_start) = Len(aux.pool0)
        /\ \A i \in 1..Len(aux.pool0) :
              /\ aux.pool_start[i].pressure =
                    IF RLt(aux.lengths[i], TaperStartMax)
                    THEN RMul(aux.pool0[i].pressure, RDiv(aux.lengths[i], TaperStartMax))
                    ELSE aux.pool0[i].pressure
              /\ (cps.radius_taper_start = RHalf
                     /\ RMul(RInt(4), aux.lengths[i]) = TaperT) =>
                    aux.pool_start[i].pressure = RMul(RHalf, aux.pool0[i].pressure)

\* C6 witness: s = 1/2, a sample of non-zero pressure at 25% of the length whose
\* pressure was halved, and a sample of non-zero pressure past the taper zone that
\* kept its own.
C6_Witness ==
    /\ TaperCase
    /\ cps.radius_taper_start = RHalf
    /\ \E i \in 1..Len(aux.pool0) :
          /\ RMul(RInt(4), aux.lengths[i]) = TaperT
          /\ aux.pool0[i].pressure # RZero
          /\ aux.pool_start[i].pressure = RMul(RHalf, aux.pool0[i].pressure)
    /\ \E j \in 1..Len(aux.pool0) :
          /\ RGe(aux.lengths[j], TaperStartMax)
          /\ aux.pool0[j].pressure # RZero
          /\ aux.pool_start[j].pressure = aux.pool0[j].pressure

\* C7: with a taper-end fraction e # 0 and total length T, the end pass multiplies
\* the pressure of every sample with L(i) > T - e * T by (T - L(i)) / (e * T), the
\* sample at index 0 included when it satisfies the condition, and leaves the
\* pressure of every other sample.
C7_TaperEnd ==
    (TaperCase /\ cps.radius_taper_end # RZero) =>
        /\ Len(aux.pool_end) = Len(aux.pool_start)
        /\ \A i \in 1..Len(aux.pool_start) :
              aux.pool_end[i].pressure =
                 IF RGt(aux.lengths[i], RSub(TaperT, TaperEndMax))
                 THEN RMul(aux.pool_start[i].pressure,
                           RDiv(RSub(TaperT, aux.lengths[i]), TaperEndMax))
                 ELSE aux.pool_start[i].pressure

\* The stroke curve_draw_exec received is closed: at least 3 samples, the first
\* and the last within STROKE_CYCLIC_DIST_PX on screen, and use_cyclic is true.
ClosedStrokeCase ==
    /\ ret = "OPERATOR_FINISHED"
    /\ Len(aux.exec_pool) >= 3
    /\ RLe(len_squared_v2v2(aux.exec_pool[1].mval, aux.exec_pool[Len(aux.exec_pool)].mval),
           RInt(STROKE_CYCLIC_DIST_PX * STROKE_CYCLIC_DIST_PX))
    /\ PropGet(op.props, "use_cyclic")

\* C8 as stated: a closed stroke finalized with the cyclic flag set yields a
\* spline whose cyclic flag is set.
C8_ClosedStrokeCyclic == ClosedStrokeCase => LastNurb.flagu_cyclic

\* C8 amended: a closed stroke finalized in Bezier mode with the cyclic flag set
\* yields a spline whose cyclic flag is set when the fit call returns zero and at
\* least 3 rows were left after duplicate removal.
C8_ClosedStrokeCyclicBezier ==
    (ClosedStrokeCase /\ FinishedBezier /\ fit.result = 0 /\ Len(fit.coords) >= 3) =>
        /\ LastNurb.type = "CU_BEZIER"
        /\ LastNurb.flagu_cyclic
        /\ fit.cyclic

\* C8 witness: an interactively drawn closed stroke, use_cyclic computed by
\* curve_draw_exec_precalc, fitted to a cyclic Bezier spline.
C8_Witness ==
    /\ ClosedStrokeCase /\ FinishedBezier /\ fit.result = 0 /\ Len(fit.coords) >= 3
    /\ aux.handler = "release"
    /\ LastNurb.flagu_cyclic
    /\ LastNurb.pntsu >= 3

\* The feature vector of a sample: position, and pressure when it is a channel.
FeatureRow(selem) == Coord(selem, UsePressureRadius(cps))

\* The number of maximal runs of consecutive samples with identical feature vectors.
NumRuns(p) ==
    Cardinality({i \in 1..Len(p) : i = 1 \/ FeatureRow(p[i]) # FeatureRow(p[i - 1])})

\* The stroke p with an exact duplicate of sample k inserted directly after it.
InsertDup(p, k) == SubSeq(p, 1, k) \o <<p[k]>> \o SubSeq(p, k + 1, Len(p))

\* C9: the rows handed to the fit call hold no two consecutive identical rows,
\* there are as many as the stroke has maximal runs of identical consecutive
\* samples, and the stroke with an exact duplicate of any one sample inserted after
\* it gives the fit call the same rows (so the same control points).
C9_FitInputCoalesced ==
    FinishedBezier =>
        /\ \A i \in 1..(Len(fit.coords) - 1) : fit.coords[i] # fit.coords[i + 1]
        /\ Len(fit.coords) = NumRuns(aux.exec_pool)
        /\ \A k \in 1..Len(aux.exec_pool) :
              FitCoords(InsertDup(aux.exec_pool, k), UsePressureRadius(cps)) = fit.coords

\* C9 witness: a stroke holding a run of two identical samples between other
\* samples was fitted, from fewer rows than it has samples.
C9_Witness ==
    /\ FinishedBezier
    /\ Len(fit.coords) >= 2
    /\ Len(fit.coords) < Len(aux.exec_pool)
    /\ \E i \in 2..(Len(aux.exec_pool) - 1) :
          /\ aux.exec_pool[i] = aux.exec_pool[i + 1]
          /\ aux.exec_pool[i] # aux.exec_pool[i - 1]

\* The position a poly-line control point takes from a sample.
PolyVec(selem) ==
    IF cu.is_3d THEN selem.location_local
    ELSE <<selem.location_local[1], selem.location_local[2], RZero>>

\* C10: in poly mode curve_draw_exec emits one control point per sample of the
\* stroke, in stroke order and duplicates included, and calls neither the fit nor
\* the corner detection.
C10_PolyOnePointPerSample ==
    (ret = "OPERATOR_FINISHED" /\ cps.curve_type = "CU_POLY") =>
        /\ Len(nurblist) = aux.pre_nurbs + 1
        /\ LastNurb.type = "CU_POLY"
        /\ LastNurb.pntsu = Len(aux.exec_pool)
        /\ Len(LastNurb.bp) = Len(aux.exec_pool)
        /\ \A i \in 1..Len(aux.exec_pool) : LastNurb.bp[i].vec = PolyVec(aux.exec_pool[i])
        /\ fit.calls = 0
        /\ fit.corners_calls = 0

\* C10 witness: a poly spline of 4 points made from a stroke of 4 samples, two
\* consecutive ones identical.
C10_Witness ==
    /\ ret = "OPERATOR_FINISHED" /\ cps.curve_type = "CU_POLY"
    /\ Len(aux.exec_pool) = 4
    /\ LastNurb.pntsu = 4
    /\ \E i \in 1..3 : aux.exec_pool[i] = aux.exec_pool[i + 1]

\* C11: in poly mode the radius stored on each output point is the value
\* stroke_elem_radius gives for its sample,
\* (pressure * (radius_max - radius_min) + radius_min) * bevel_radius.
C11_PolyRadiusResolved ==
    (ret = "OPERATOR_FINISHED" /\ cps.curve_type = "CU_POLY") =>
        \A i \in 1..Len(aux.exec_pool) :
           LastNurb.bp[i].radius = stroke_elem_radius(curve_draw_init(cps), aux.exec_pool[i])

\* The fitted points of the spline curve_draw_exec made of a successful fit.
FittedPoints == 1..Len(LastNurb.bezt)

\* The returned corner indices, and those between the first and the last returned.
ReturnedCorners == {fit.corners_index[i] : i \in 1..Len(fit.corners_index)}
InteriorCorners == {fit.corners_index[i] : i \in 2..(Len(fit.corners_index) - 1)}

\* C12 as stated: after a successful Bezier fit a fitted point is tagged HD_FREE
\* exactly when the fit is non-cyclic and its index is an interior returned corner
\* index; every other fitted point is tagged HD_ALIGN.
C12_FreeOnlyInteriorNonCyclic ==
    (FinishedBezier /\ fit.result = 0) =>
        \A j \in FittedPoints :
           /\ LastNurb.bezt[j].h \in {"HD_FREE", "HD_ALIGN"}
           /\ LastNurb.bezt[j].h = "HD_FREE" <=>
                 (~fit.cyclic /\ (j - 1) \in InteriorCorners)

\* C12 amended: after a successful Bezier fit a fitted point is tagged HD_FREE
\* exactly when its index is a returned corner index, the first and the last
\* returned index being left out when the fit is non-cyclic and returned at least
\* two; every other fitted point is tagged HD_ALIGN.
C12_FreeAtCorners ==
    (FinishedBezier /\ fit.result = 0) =>
        \A j \in FittedPoints :
           /\ LastNurb.bezt[j].h \in {"HD_FREE", "HD_ALIGN"}
           /\ LastNurb.bezt[j].h = "HD_FREE" <=>
                 (j - 1) \in IF ~fit.cyclic /\ Len(fit.corners_index) >= 2
                             THEN InteriorCorners ELSE ReturnedCorners

\* C12 witness: a non-cyclic fit returned three corner indices; the point at the
\* middle one is HD_FREE, the points at the first and the last are HD_ALIGN.
C12_Witness ==
    /\ FinishedBezier /\ fit.result = 0 /\ ~fit.cyclic
    /\ Len(fit.corners_index) = 3
    /\ LastNurb.bezt[fit.corners_index[2] + 1].h = "HD_FREE"
    /\ LastNurb.bezt[fit.corners_index[1] + 1].h = "HD_ALIGN"
    /\ LastNurb.bezt[fit.corners_index[3] + 1].h = "HD_ALIGN"

\* C13 as stated: between session creation and session end the projection strategy
\* (use_plane, use_depth), the translation offset (use_offset, offset) and the
\* surface-offset settings do not change; only the plane equation may.
C13_OnlyPlaneChanges ==
    [][(op.customdata /\ op'.customdata) =>
          [cdd'.project EXCEPT !.plane = cdd.project.plane] = cdd.project]_vars

\* C13 amended: the surface-offset settings are fixed from session creation to
\* session end; the projection strategy, the translation offset and the plane
\* equation are fixed from the first sample on: once the pool holds a sample no
\* field of cdd->project changes.  Before that, adding the first sample may switch
\* depth projection to plane projection (never back) and set the offset.
C13_ProjectionFixedAfterFirstSample ==
    [][(op.customdata /\ op'.customdata) =>
          /\ cdd'.project.surface_offset = cdd.project.surface_offset
          /\ cdd'.project.use_surface_offset_absolute =
                cdd.project.use_surface_offset_absolute
          /\ pool # <<>> => cdd'.project = cdd.project
          /\ cdd.project.use_plane => cdd'.project.use_plane
          /\ cdd'.project.use_plane = ~cdd'.project.use_depth]_vars

\* C13 witness: a session created on the depth buffer whose first sample, added by
\* a later press, switched it to a plane with a translation offset, and which has
\* added further samples since.
C13_Witness ==
    /\ ret = "OPERATOR_RUNNING_MODAL" /\ op.customdata /\ op.wait_for_input
    /\ cdd.depths /\ cdd.project.use_plane /\ ~cdd.project.use_depth
    /\ cdd.project.use_offset
    /\ Len(pool) >= 2

\* C14: whenever the operator has returned OPERATOR_FINISHED or OPERATOR_CANCELLED
\* (commit on release, cancel, non-interactive exec, failed initialization) the
\* session data (sample pool, depth snapshot, draw callback) is gone and
\* op->customdata is null; while it returns OPERATOR_RUNNING_MODAL the session
\* data exists.
C14_SessionLifetime ==
    /\ ret \in {"OPERATOR_FINISHED", "OPERATOR_CANCELLED"} =>
          /\ ~op.customdata
          /\ cdd = CurveDrawDataZero
          /\ pool = <<>>
    /\ ret = "OPERATOR_RUNNING_MODAL" =>
          /\ op.customdata
          /\ op.modal_handler
          /\ cdd.draw_handle_view
          /\ cdd.curve_type = cps.curve_type

\* C14 witness: a session that held a depth snapshot and samples was committed on
\* release of the initial button, and nothing of it is left.
C14_Witness ==
    /\ ret = "OPERATOR_FINISHED" /\ aux.handler = "release"
    /\ aux.pre_len >= 2
    /\ \E i \in 1..Len(aux.log) : aux.log[i].ok
    /\ ~op.customdata /\ cdd = CurveDrawDataZero /\ pool = <<>>

\* world = object_to_world * local and local = world_to_object * world
Consistent(selem) ==
    /\ selem.location_world = object_to_world(selem.location_local)
    /\ selem.location_local = world_to_object(selem.location_world)

AllConsistent(p) == \A i \in 1..Len(p) : Consistent(p[i])

\* C15: every sample of the stroke has world = object_to_world * local (and local
\* = world_to_object * world): the samples curve_draw_event_add put in the pool,
\* the samples curve_draw_stroke_from_operator_elem reloaded for curve_draw_exec,
\* and the samples after each taper pass edited pressures with
\* stroke_elem_pressure_set.
C15_LocalWorldConsistent ==
    /\ AllConsistent(pool)
    /\ AllConsistent(aux.exec_pool)
    /\ AllConsistent(aux.pool0)
    /\ AllConsistent(aux.pool_start)
    /\ AllConsistent(aux.pool_end)

\* C15 witness: a taper pass edited the pressure of a sample with a surface
\* normal under a radius-scaled surface offset and moved it.
C15_Witness ==
    /\ ret = "OPERATOR_FINISHED" /\ aux.handler = "release"
    /\ \E i \in 1..Len(aux.pool0) :
          /\ ~is_zero_v3(aux.pool0[i].normal_local)
          /\ aux.pool_end[i].pressure # aux.pool0[i].pressure
          /\ aux.pool_end[i].location_local # aux.pool0[i].location_local
          /\ aux.pool_end[i].location_world # aux.pool0[i].location_world

\* The pixel stroke_elem_project_fallback_elem reads the depth buffer at.
PixelOf(selem) == <<RTrunc(selem.mval[1]), RTrunc(selem.mval[2])>>

\* C17: every stored sample whose projection did not sample a surface normal
\* (plane projection, depth projection without a normal, projection failure
\* resolved with the fallback depth) has zero world and local normals; a non-zero
\* world normal is the surface normal sampled at the sample's own pixel by its own
\* successful projection, and the local normal is derived from it.  This holds
\* for substeps too, the first of which is written into the raw endpoint's slot.
C17_NormalsOwnOrZero ==
    SamplesAdded =>
        \A i \in 1..Len(pool) :
           /\ is_zero_v3(pool[i].normal_world) <=> is_zero_v3(pool[i].normal_local)
           /\ pool[i].normal_local =
                 normalize_v3(mul_transposed_mat3_m4_v3(pool[i].normal_world))
           /\ ~aux.log[i].ok => is_zero_v3(pool[i].normal_world)
           /\ ~cdd.depths => is_zero_v3(pool[i].normal_world)
           /\ ~is_zero_v3(pool[i].normal_world) =>
                 /\ cdd.project.surface_offset # RZero
                 /\ ED_view3d_depth_read_cached_normal(PixelOf(pool[i])).ok
                 /\ pool[i].normal_world =
                       ED_view3d_depth_read_cached_normal(PixelOf(pool[i])).no

\* curve_draw_exec_precalc ran on a session whose surface offset is non-zero and
\* scaled by the radius.
RadiusOffsetTaper ==
    /\ ret = "OPERATOR_FINISHED" /\ aux.handler = "release"
    /\ cps.surface_offset # RZero /\ ~cps.flag.DEPTH_STROKE_OFFSET_ABS

\* The samples of the released stroke that their own successful projection gave a
\* surface normal.
WithNormal == {i \in 1..Len(aux.pool0) : aux.log[i].ok /\ ~is_zero_v3(aux.pool0[i].normal_world)}

\* The un-offset surface point under a sample.
SurfacePoint(selem) == ED_view3d_depth_unproject_v3(PixelOf(selem), DepthAt(PixelOf(selem)))

\* C18: with a non-zero surface offset scaled by radius, after the taper passes
\* edited pressures through stroke_elem_pressure_set every sample with a surface
\* normal lies displaced from its un-offset surface point, along the normal, by
\* its new radius times the surface offset: where projecting it with the new
\* pressure would have put it.
C18_OffsetFollowsRadius ==
    RadiusOffsetTaper =>
        \A i \in WithNormal :
           aux.pool_end[i].location_world =
              madd_v3_v3fl(SurfacePoint(aux.pool0[i]), aux.pool0[i].normal_world,
                           RMul(stroke_elem_radius(curve_draw_init(cps), aux.pool_end[i]),
                                cps.surface_offset))

\* The condition under which stroke_elem_pressure_set may move a sample.
MayMove(selem) ==
    /\ cps.surface_offset # RZero /\ ~cps.flag.DEPTH_STROKE_OFFSET_ABS
    /\ ~is_zero_v3(selem.normal_local)

\* b is a with at most its pressure changed, unless a may move.
PressureOnly(a, b) == ~MayMove(a) => b = [a EXCEPT !.pressure = b.pressure]

\* C19: stroke_elem_pressure_set changes the local and world position of a sample
\* only when the surface offset is non-zero, not absolute, and the sample's local
\* normal is non-zero; otherwise it changes the pressure only: positions and
\* normals stay.  Checked on both taper passes of curve_draw_exec_precalc.
C19_PressureSetMovesOnlyOffsetSamples ==
    (ret = "OPERATOR_FINISHED" /\ aux.handler = "release") =>
        \A i \in 1..Len(aux.pool0) :
           /\ PressureOnly(aux.pool0[i], aux.pool_start[i])
           /\ PressureOnly(aux.pool_start[i], aux.pool_end[i])

\* C19 witness: the taper passes edited the pressure of a sample that may move
\* and moved it, and the pressure of a sample without a normal, which stayed.
C19_Witness ==
    /\ ret = "OPERATOR_FINISHED" /\ aux.handler = "release"
    /\ \E i \in 1..Len(aux.pool0) :
          /\ MayMove(aux.pool0[i])
          /\ aux.pool_end[i].location_local # aux.pool0[i].location_local
    /\ \E j \in 1..Len(aux.pool0) :
          /\ ~MayMove(aux.pool0[j])
          /\ aux.pool_end[j].pressure # aux.pool0[j].pressure
          /\ aux.pool_end[j].location_local = aux.pool0[j].location_local
          /\ aux.pool_end[j].location_world = aux.pool0[j].location_world

\* The slots lo+1..Len(log) whose sample stroke_elem_project resolved itself.
FoundAfter(log, lo) == {i \in (lo + 1)..Len(log) : log[i].ok}

\* The highest slot of a non-empty set of slots.
LastOf(S) == CHOOSE i \in S : \A j \in S : j <= i

\* The fallback depth after samples lo+1.. were added to a session whose
\* fallback depth was valid: the position of the last of them that was found.
FallbackAfter(valid, p, log, lo) ==
    IF FoundAfter(log, lo) = {} THEN valid
    ELSE p[LastOf(FoundAfter(log, lo))].location_world

\* C20: prev.location_world_valid is only overwritten with the world position
\* of a sample whose own projection succeeded: the raw endpoint if it was found,
\* else the last substep that was found; samples resolved through the fallback
\* leave it as it was (at invoke: the view centre depth under the pointer).
C20_FallbackDepthOnlyFromFound ==
    [][/\ (op.customdata /\ op'.customdata) =>
            cdd'.prev.location_world_valid =
                FallbackAfter(cdd.prev.location_world_valid, pool', aux'.log, Len(pool))
       /\ (~op.customdata /\ op'.customdata /\ pool' # <<>>) =>
            cdd'.prev.location_world_valid =
                FallbackAfter(ED_view3d_win_to_3d(ViewCenter, pool'[1].mval),
                              pool', aux'.log, 0)]_vars

\* C20 witness: the last event added a raw endpoint that fell back and a substep
\* that was found, and the substep's position is the fallback depth now, while an
\* earlier event had found its raw endpoint.
C20_Witness ==
    /\ op.customdata /\ aux.handler = "modal" /\ Len(pool) > aux.pre_len + 1
    /\ ~aux.log[Len(pool)].ok
    /\ FoundAfter(aux.log, aux.pre_len) # {}
    /\ cdd.prev.location_world_valid =
          pool[LastOf(FoundAfter(aux.log, aux.pre_len))].location_world
    /\ cdd.prev.location_world_valid # pool[Len(pool)].location_world
    /\ \E i \in 1..aux.pre_len : aux.log[i].ok

\* before is a prefix of after: same samples, same order, same field values.
IsPrefix(before, after) ==
    /\ Len(before) <= Len(after)
    /\ \A i \in 1..Len(before) : after[i] = before[i]

\* The samples lo+1..Len(p) are the substeps of one event, in order, followed by
\* its raw endpoint, which is the sample prev.selem and prev.mval refer to.
RawEndpointLast(c, p, log, lo) ==
    /\ c.prev.selem = Len(p)
    /\ p[Len(p)].mval = c.prev.mval
    /\ log[Len(p)].t = ROne
    /\ \A i \in (lo + 1)..(Len(p) - 1) :
          /\ RLt(log[i].t, ROne)
          /\ i > lo + 1 => RLt(log[i - 1].t, log[i].t)

\* C21: while painting the stroke sequence is append-only: after every event
\* curve_draw_modal handles within the session, the sequence before the event is
\* a prefix of the sequence after it, and the raw endpoint of an event that
\* added samples is the last sample, after all of that event's substeps.
C21_AppendOnly ==
    [][(op.customdata /\ op'.customdata) =>
          /\ IsPrefix(pool, pool')
          /\ Len(pool') > Len(pool) => RawEndpointLast(cdd', pool', aux'.log, Len(pool))]_vars

\* C21 witness: an event added substeps and its raw endpoint behind earlier samples.
C21_Witness ==
    /\ op.customdata /\ aux.handler = "modal"
    /\ aux.pre_len >= 1 /\ Len(pool) > aux.pre_len + 1
    /\ RawEndpointLast(cdd, pool, aux.log, aux.pre_len)

\* The last event's raw sample needs no substeps: it is the first of the stroke,
\* or substeps are disabled, or it is closer than STROKE_SAMPLE_DIST_MAX_PX to the
\* raw sample before it.
NoSubstepCase ==
    /\ SamplesAdded
    /\ \/ aux.pre_len = 0
       \/ ~aux.use_substeps
       \/ RLt(LastLenSq, square_f(STROKE_SAMPLE_DIST_MAX_PX))

\* C22: an event whose raw sample is the first of the stroke, or arrives with
\* substeps disabled, or lies closer than 3 px to the previous raw sample,
\* appends exactly one sample, the raw endpoint, and no substeps.
C22_OneSampleWithoutSubsteps ==
    NoSubstepCase =>
        /\ Len(pool) = aux.pre_len + 1
        /\ aux.log[Len(pool)].t = ROne
        /\ pool[Len(pool)].mval = cdd.prev.mval

\* C22 witness: with substeps enabled an event added one raw sample closer than
\* 3 px to the raw sample before it, and nothing else.
C22_Witness ==
    /\ SamplesAdded /\ aux.use_substeps /\ aux.pre_len >= 1
    /\ RLt(LastLenSq, square_f(STROKE_SAMPLE_DIST_MAX_PX))
    /\ Len(pool) = aux.pre_len + 1

\* The factor of the start pass for a sample at arc length l of a stroke of
\* length t, 1 outside the start zone.
StartFactor(l, t) ==
    IF cps.radius_taper_start # RZero /\ RLt(l, RMul(cps.radius_taper_start, t))
    THEN RDiv(l, RMul(cps.radius_taper_start, t)) ELSE ROne

\* The factor of the end pass, 1 outside the end zone.
EndFactor(l, t) ==
    IF cps.radius_taper_end # RZero /\ RGt(l, RSub(t, RMul(cps.radius_taper_end, t)))
    THEN RDiv(RSub(t, l), RMul(cps.radius_taper_end, t)) ELSE ROne

\* The cumulative lengths of the samples as they were before either taper pass.
Lengths0 == Lengths(aux.pool0)

\* C23: both taper passes use the cumulative lengths computed once from the
\* positions before either pass; every sample ends with its original pressure
\* times the start factor times the end factor of its zone(s); a pass whose
\* fraction is zero changes no sample.
C23_TaperPassesShareLengths ==
    (ret = "OPERATOR_FINISHED" /\ aux.handler = "release" /\ aux.pool0 # <<>>) =>
        /\ aux.lengths = Lengths0
        /\ cps.radius_taper_start = RZero => aux.pool_start = aux.pool0
        /\ cps.radius_taper_end = RZero => aux.pool_end = aux.pool_start
        /\ (cps.radius_taper_start # RZero /\ cps.radius_taper_end # RZero) =>
              \A i \in 1..Len(aux.pool0) :
                 aux.pool_end[i].pressure =
                    RMul(RMul(aux.pool0[i].pressure,
                              StartFactor(Lengths0[i], Lengths0[Len(Lengths0)])),
                         EndFactor(Lengths0[i], Lengths0[Len(Lengths0)]))

\* C23 witness: both fractions are non-zero and a sample of non-zero pressure
\* lies in both zones, strictly inside the stroke, so both factors scaled it.
C23_Witness ==
    /\ ret = "OPERATOR_FINISHED" /\ aux.handler = "release" /\ aux.pool0 # <<>>
    /\ cps.radius_taper_start # RZero /\ cps.radius_taper_end # RZero
    /\ \E i \in 1..Len(aux.pool0) :
          /\ aux.pool0[i].pressure # RZero
          /\ StartFactor(Lengths0[i], Lengths0[Len(Lengths0)]) \notin {RZero, ROne}
          /\ EndFactor(Lengths0[i], Lengths0[Len(Lengths0)]) \notin {RZero, ROne}
          /\ aux.pool_end[i].pressure \notin
                {aux.pool0[i].pressure, aux.pool_start[i].pressure}

\* The cyclic option is set and at least 3 rows were left after duplicate removal.
CyclicRequested == PropGet(op.props, "use_cyclic") /\ Len(fit.coords) >= 3

\* C24: in Bezier mode the fit is run as cyclic exactly when the cyclic option is
\* set and at least 3 samples are left after duplicate removal, and the output
\* spline is flagged cyclic exactly when, in addition, the fit succeeded; with
\* fewer than 3 deduplicated samples a requested cyclic flag is ignored.
C24_CyclicIffRequestedAndFitted ==
    FinishedBezier =>
        /\ fit.cyclic <=> CyclicRequested
        /\ LastNurb.flagu_cyclic <=> (CyclicRequested /\ fit.result = 0)
        /\ (fit.cyclic /\ LastNurb.flagu_cyclic) <=> (CyclicRequested /\ fit.result = 0)

\* C24 witness: the cyclic option was set on a stroke of at least 3 samples of
\* which fewer than 3 were left after duplicate removal; the fit succeeded and
\* the spline is not cyclic.
C24_Witness ==
    /\ FinishedBezier /\ fit.result = 0
    /\ PropGet(op.props, "use_cyclic")
    /\ Len(aux.exec_pool) >= 3 /\ Len(fit.coords) < 3
    /\ ~fit.cyclic /\ ~LastNurb.flagu_cyclic

\* The fit method is the split fit and the corner angle is below pi.
SplitBelowPi ==
    /\ PropGet(op.props, "fit_method") = "CURVE_PAINT_FIT_METHOD_SPLIT"
    /\ RLt(PropGet(op.props, "corner_angle"), M_PI)

\* C25: corner detection is invoked exactly when the fit method is the split fit
\* and the corner angle is strictly below pi; otherwise no corner list is
\* computed and the fit is given no pre-detected corners.
C25_CornerDetectionIffSplitBelowPi ==
    FinishedBezier =>
        /\ fit.corners_calls = (IF SplitBelowPi THEN 1 ELSE 0)
        /\ fit.corners = (IF SplitBelowPi THEN "detected" ELSE "nullptr")

\* C25 witness: a split fit ran with the corner angle at pi, and no corner
\* detection was made.
C25_Witness ==
    /\ FinishedBezier
    /\ PropGet(op.props, "fit_method") = "CURVE_PAINT_FIT_METHOD_SPLIT"
    /\ PropGet(op.props, "corner_angle") = M_PI
    /\ fit.corners_calls = 0 /\ fit.corners = "nullptr"

\* The pressure-radius option is on or either taper fraction is non-zero.
PressureWanted ==
    cps.flag.PRESSURE_RADIUS \/ cps.radius_taper_start # RZero \/ cps.radius_taper_end # RZero

\* C26: after a successful Bezier fit the rows given to the fit carry a pressure
\* channel exactly when the pressure-radius option is on or a taper fraction is
\* non-zero; each output point's radius is its pressure channel times
\* (radius_max - radius_min) plus radius_min when the channel is present, and
\* radius_max otherwise.
C26_BezierRadiusFromPressureChannel ==
    (FinishedBezier /\ fit.result = 0) =>
        /\ Len(LastNurb.bezt) = Len(fit.coords)
        /\ \A j \in 1..Len(fit.coords) :
              /\ Len(fit.coords[j]) = (IF PressureWanted THEN 4 ELSE 3)
              /\ LastNurb.bezt[j].radius =
                    IF PressureWanted
                    THEN RAdd(RMul(fit.coords[j][4], RSub(cps.radius_max, cps.radius_min)),
                              cps.radius_min)
                    ELSE cps.radius_max

\* C26 witness: the pressure option is off and a taper fraction is non-zero; the
\* fit succeeded and gave one point the maximum radius and another a smaller one.
C26_Witness ==
    /\ FinishedBezier /\ fit.result = 0
    /\ ~cps.flag.PRESSURE_RADIUS /\ PressureWanted
    /\ \E j \in 1..Len(LastNurb.bezt) : LastNurb.bezt[j].radius = cps.radius_max
    /\ \E j \in 1..Len(LastNurb.bezt) : RLt(LastNurb.bezt[j].radius, cps.radius_max)

\* The number of raw samples among the slots lo+1..Len(log): one for every call of
\* curve_draw_event_add.
RawCount(log, lo) == Cardinality({i \in (lo + 1)..Len(log) : log[i].t = ROne})

\* C27: every event curve_draw_modal handles triggers at most one call of
\* curve_draw_event_add; samples are added by a LEFTMOUSE press or by a motion
\* event only; a motion event adds one only while painting and when its squared
\* distance from the previous raw sample exceeds STROKE_SAMPLE_DIST_MIN_PX
\* squared, so none is added while idle before the first press; and the fit is
\* called at most once in a session, by the release that ends it.
C27_OneSamplingPassPerEvent ==
    [][op.customdata =>
          /\ (op'.customdata /\ pool' # pool) =>
                /\ RawCount(aux'.log, Len(pool)) = 1
                /\ aux'.event \in {"LEFTMOUSE", "MOUSEMOVE"}
                /\ cdd.state # "CURVE_DRAW_PAINTING" => aux'.event = "LEFTMOUSE"
                /\ aux'.event = "MOUSEMOVE" =>
                      RGt(len_squared_v2v2(pool'[Len(pool')].mval, cdd.prev.mval),
                          square_f(STROKE_SAMPLE_DIST_MIN_PX))
          /\ fit = FitNone
          /\ fit' # fit => (aux'.handler = "release" /\ ~op'.customdata /\ fit'.calls = 1)]_vars

\* C27 witness: a motion event while painting added a raw sample to a stroke that
\* a press had started in a session that was idle until then.
C27_Witness ==
    /\ op.customdata /\ op.wait_for_input
    /\ aux.handler = "modal" /\ aux.event = "MOUSEMOVE"
    /\ cdd.state = "CURVE_DRAW_PAINTING"
    /\ aux.pre_len >= 1 /\ Len(pool) > aux.pre_len
    /\ fit = FitNone

\* C30: in every state of a session curve_draw_invoke started exactly one of
\* project.use_plane and project.use_depth is true, and use_depth only while the
\* depth snapshot is held; the snapshot is acquired by curve_draw_invoke only,
\* stays the same through the session, and is gone after curve_draw_exit.
C30_PlaneXorDepthOneSnapshot ==
    [][/\ op'.customdata =>
            /\ cdd'.project.use_plane # cdd'.project.use_depth
            /\ cdd'.project.use_depth => cdd'.depths
       /\ (op.customdata /\ op'.customdata) => cdd'.depths = cdd.depths
       /\ (cdd'.depths /\ ~cdd.depths) => (~op.customdata /\ aux'.handler = "invoke")
       /\ ~op'.customdata => ~cdd'.depths]_vars

\* C30 witness: a session holds the depth snapshot it acquired at invoke and has
\* switched from the depth buffer to a plane with its first sample.
C30_Witness ==
    /\ op.customdata /\ pool # <<>>
    /\ cdd.depths
    /\ cdd.project.use_plane /\ ~cdd.project.use_depth

\* C31: a stroke curve_draw_modal finalizes on release holds at least one sample:
\* a session has an init_event_type exactly when curve_draw_event_add_first has
\* added its first sample, so a release before any press finalizes nothing and
\* curve_draw_exec_precalc and curve_draw_exec never see an empty pool.
C31_ReleaseNeverOnEmptyPool ==
    /\ op.customdata => (cdd.init_event_type = "NONE" <=> pool = <<>>)
    /\ (ret = "OPERATOR_FINISHED" /\ aux.handler = "release") =>
          /\ Len(aux.pool0) >= 1
          /\ Len(aux.exec_pool) >= 1

\* C31 witness: a session that waited for its first press was finalized by a
\* release, on a stroke of at least one sample.
C31_Witness ==
    /\ ret = "OPERATOR_FINISHED" /\ aux.handler = "release"
    /\ op.wait_for_input
    /\ Len(aux.pool0) >= 1 /\ aux.exec_pool = aux.pool_end

\* C32: cancelling the session (Escape or right mouse, not the initiating type),
\* with any number of samples captured, returns OPERATOR_CANCELLED and leaves the
\* edited curve as it was: no spline added, the selection of the existing splines
\* untouched, the active spline and vertex unchanged.
C32_CancelLeavesCurve ==
    [][aux'.handler = "cancel" =>
          /\ ret' = "OPERATOR_CANCELLED"
          /\ ~op'.customdata
          /\ nurblist' = nurblist
          /\ cu' = cu]_vars

\* C32 witness: a session with at least two samples was cancelled on a curve
\* that holds a selected spline.
C32_Witness ==
    /\ aux.handler = "cancel" /\ ret = "OPERATOR_CANCELLED"
    /\ aux.pre_len >= 2
    /\ Len(nurblist) = 1 /\ nurblist[1].bp[1].select

\* The samples curve_draw_stroke_from_operator loads from the recorded stroke.
Reloaded == curve_draw_stroke_from_operator(op.stroke, <<>>)

\* C33: the stroke curve_draw_stroke_to_operator recorded on release reloads, with
\* curve_draw_stroke_from_operator, as the same number of samples in the same
\* order with the same screen position, world position and pressure, so that a
\* re-execution fits the points the interactive run fitted.
C33_StrokeRoundTrip ==
    (ret = "OPERATOR_FINISHED" /\ aux.handler = "release") =>
        /\ Len(Reloaded) = Len(aux.pool_end)
        /\ \A i \in 1..Len(Reloaded) :
              /\ Reloaded[i].mval = aux.pool_end[i].mval
              /\ Reloaded[i].location_world = aux.pool_end[i].location_world
              /\ Reloaded[i].pressure = aux.pool_end[i].pressure
        /\ FitCoords(Reloaded, UsePressureRadius(cps))
              = FitCoords(aux.exec_pool, UsePressureRadius(cps))

\* C33 witness: a released stroke of at least two samples at different places
\* and pressures, away from the object's origin, was recorded.
C33_Witness ==
    /\ ret = "OPERATOR_FINISHED" /\ aux.handler = "release"
    /\ Len(op.stroke) >= 2
    /\ op.stroke[1].mouse # op.stroke[2].mouse
    /\ op.stroke[1].pressure # op.stroke[2].pressure
    /\ aux.pool_end[1].location_local # aux.pool_end[1].location_world

PropNames == {"fit_method", "corner_angle", "error_threshold", "use_cyclic"}

\* C34: curve_draw_exec_precalc assigns fit_method, corner_angle, error_threshold
\* and use_cyclic only when the property is not set: a property set before the
\* call has the same value after it, and every one of the four is set after it.
C34_PrecalcKeepsSetProperties ==
    [][aux'.handler = "release" =>
          \A name \in PropNames :
             /\ op.props[name].is_set => op'.props[name] = op.props[name]
             /\ op'.props[name].is_set]_vars

\* C34 witness: a release left fit_method at a value other than the paint
\* settings' (it was set before the call) next to a corner_angle taken from the
\* paint settings.
C34_Witness ==
    /\ ret = "OPERATOR_FINISHED" /\ aux.handler = "release"
    /\ op.props.fit_method.value # cps.fit_method
    /\ op.props.corner_angle.value # M_PI
    /\ op.props.corner_angle.value = cps.corner_angle

(* ------------------------------------------------------------------ *)
(* Properties of transform.cc                                          *)
(* ------------------------------------------------------------------ *)

\* C38: translate_geometry with a zero translation and transform_geometry with the
\* identity matrix change nothing: no component is acquired for writing, none is
\* modified, and transform_geometry returns no error record.
C38_ZeroAndIdentityChangeNothing ==
    (\/ geo.call = "translate_geometry" /\ geo.transform.loc = Zero3
     \/ geo.call = "transform_geometry" /\ geo.transform = MatIdentity) =>
        /\ geo.geometry = geo.before
        /\ geo.geometry.written = {}
        /\ ~geo.result.has

\* C38 witness: translate_geometry was called with the zero translation on a
\* geometry set that holds a point cloud with cached bounds, a volume and
\* instances.
C38_Witness ==
    /\ geo.call = "translate_geometry" /\ geo.transform.loc = Zero3
    /\ {"pointcloud", "volume", "instances"} \subseteq geo.before.has
    /\ geo.before.pointcloud.bounds.cached
    /\ geo.with_openvdb

\* translate_pointcloud ran with a non-zero translation.
PointCloudTranslated ==
    /\ geo.call = "translate_geometry" /\ geo.transform.loc # Zero3
    /\ "pointcloud" \in geo.before.has

\* The smallest (least = TRUE) or largest value of axis k among the positions.
Extreme(positions, k, least) ==
    CHOOSE v \in {positions[i][k] : i \in 1..Len(positions)} :
        \A i \in 1..Len(positions) :
           IF least THEN RLe(v, positions[i][k]) ELSE RGe(v, positions[i][k])

\* C40: translate_pointcloud keeps the bounds cache consistent with the positions:
\* bounds cached before the call are cached after it, as the previous minimum and
\* maximum each moved by the translation (which bound the moved positions);
\* bounds not cached before are not cached after.
C40_PointCloudBoundsShifted ==
    PointCloudTranslated =>
        IF geo.before.pointcloud.bounds.cached
        THEN /\ geo.geometry.pointcloud.bounds =
                   [cached |-> TRUE,
                    min |-> add_v3(geo.before.pointcloud.bounds.min, geo.transform.loc),
                    max |-> add_v3(geo.before.pointcloud.bounds.max, geo.transform.loc)]
             /\ \A k \in 1..3 :
                   /\ geo.geometry.pointcloud.bounds.min[k] =
                         Extreme(geo.geometry.pointcloud.positions, k, TRUE)
                   /\ geo.geometry.pointcloud.bounds.max[k] =
                         Extreme(geo.geometry.pointcloud.positions, k, FALSE)
        ELSE ~geo.geometry.pointcloud.bounds.cached

\* C40 witness: a point cloud of two points with cached bounds was translated.
C40_Witness ==
    /\ PointCloudTranslated
    /\ geo.before.pointcloud.bounds.cached
    /\ Len(geo.geometry.pointcloud.positions) = 2
    /\ geo.geometry.pointcloud.positions # geo.before.pointcloud.positions

\* The state of every component of a geometry set.
Components(geometry) ==
    [name \in ComponentNames |-> geometry[name]]

\* C39: after translate_geometry with a non-zero translation t every component
\* (curves, mesh, point cloud, grease-pencil layers, volume, instances, curve,
\* grease-pencil and gizmo edit hints) is in the state transform_geometry with
\* the pure translation matrix of t leaves it in.
C39_TranslateIsTranslationTransform ==
    (geo.call = "translate_geometry" /\ geo.transform.loc # Zero3) =>
        Components(geo.geometry) =
            Components(transform_geometry(geo.before, geo.transform, geo.throws,
                                          geo.with_openvdb).geometry)

\* C16: when transform_volume raised volume_too_small or bad_volume_transform
\* for any grid, transform_geometry returns an error record, and it holds the
\* flags raised.
C16_VolumeErrorsReturned ==
    (/\ geo.call = "transform_geometry"
     /\ geo.errors.volume_too_small \/ geo.errors.bad_volume_transform) =>
        /\ geo.result.has
        /\ geo.result.value = geo.errors

\* transform_volume ran on the grids of the geometry set.
VolumeCase ==
    /\ geo.call = "transform_geometry" /\ geo.transform # MatIdentity
    /\ "volume" \in geo.before.has /\ geo.with_openvdb

\* transform * grid_matrix of grid i as it was before the call.
GridMatrix(i) == MatMul(geo.transform, geo.before.volume[i].matrix)

GridValid(i) == BKE_volume_grid_determinant_valid(determinant(GridMatrix(i)))

\* The matrix of grid i after recovery: identity axes for a zero determinant,
\* unit-length axes otherwise, the translation kept.
Recovered(i) ==
    IF determinant(GridMatrix(i)) = RZero
    THEN Mat(AxisX, AxisY, AxisZ, GridMatrix(i).loc)
    ELSE Mat(normalize_v3(GridMatrix(i).x), normalize_v3(GridMatrix(i).y),
             normalize_v3(GridMatrix(i).z), GridMatrix(i).loc)

\* What grid i holds when set_transform_matrix did not throw for it.
GridExpected(i) ==
    IF GridValid(i)
    THEN [matrix |-> GridMatrix(i), tree |-> geo.before.volume[i].tree]
    ELSE [matrix |-> Recovered(i), tree |-> "empty"]

\* C28 as stated: a grid whose transformed matrix has an invalid determinant
\* raises volume_too_small, loses its tree and gets the recovered matrix; a grid
\* with a valid determinant keeps the transformed matrix and raises no flag.
C28_VolumeRecovery ==
    VolumeCase =>
        /\ \A i \in 1..Len(geo.before.volume) : geo.geometry.volume[i] = GridExpected(i)
        /\ geo.errors.volume_too_small <=>
              \E i \in 1..Len(geo.before.volume) : ~GridValid(i)
        /\ (\A i \in 1..Len(geo.before.volume) : GridValid(i)) => geo.errors = NoErrors

\* C28 amended: the same for every grid for which set_transform_matrix does not
\* throw; a grid for which it throws is given no matrix (its tree is still
\* cleared when the determinant is invalid) and bad_volume_transform is raised;
\* volume_too_small is raised exactly when some determinant is invalid.
C28_VolumeRecoveryUnlessThrown ==
    VolumeCase =>
        /\ \A i \in 1..Len(geo.before.volume) :
              IF geo.throws[i]
              THEN geo.geometry.volume[i].tree = GridExpected(i).tree
              ELSE geo.geometry.volume[i] = GridExpected(i)
        /\ geo.errors.volume_too_small <=>
              \E i \in 1..Len(geo.before.volume) : ~GridValid(i)
        /\ geo.errors.bad_volume_transform <=>
              \E i \in 1..Len(geo.before.volume) : geo.throws[i]

\* C28 witness: set_transform_matrix threw for no grid; one grid had a non-zero
\* invalid determinant and got unit axes that are not the identity axes, another
\* had a valid determinant and kept the transformed matrix.
C28_Witness ==
    /\ VolumeCase
    /\ \A i \in 1..Len(geo.before.volume) : ~geo.throws[i]
    /\ \E i \in 1..Len(geo.before.volume) :
          /\ ~GridValid(i) /\ determinant(GridMatrix(i)) # RZero
          /\ geo.geometry.volume[i].matrix = Recovered(i)
          /\ Recovered(i).x # AxisX
          /\ geo.geometry.volume[i].tree = "empty"
    /\ \E j \in 1..Len(geo.before.volume) :
          /\ GridValid(j)
          /\ geo.geometry.volume[j] = [matrix |-> GridMatrix(j), tree |-> "data"]

\* Every chunk of the parallel loop has run to its end.
ParDone ==
    /\ geo.call \in {"translate_positions", "transform_positions"}
    /\ \A c \in DOMAIN geo.par.chunks :
          /\ ~geo.par.chunks[c].held
          /\ geo.par.chunks[c].next \notin
                Slice(Len(geo.par.positions), geo.par.chunks[c].range)

\* The array after the sequential element-by-element loop.
Sequential ==
    IF geo.call = "translate_positions"
    THEN translate_positions(geo.par.before, geo.transform.loc)
    ELSE transform_positions(geo.par.before, geo.transform)

\* C29: translate_positions and transform_positions write every element exactly
\* once, from that element's own previous value: while chunks run an element is
\* never written twice, and when all chunks are done, for every chunking and
\* every interleaving, the array is the result of the sequential loop.
C29_ParallelLoopsAreSequential ==
    geo.call \in {"translate_positions", "transform_positions"} =>
        /\ \A i \in 1..Len(geo.par.positions) :
              /\ geo.par.writes[i] <= 1
              /\ geo.par.positions[i] =
                    IF geo.par.writes[i] = 0 THEN geo.par.before[i] ELSE Sequential[i]
        /\ ParDone =>
              /\ geo.par.positions = Sequential
              /\ \A i \in 1..Len(geo.par.positions) : geo.par.writes[i] = 1

\* C29 witness: a loop split into more than one chunk has finished.
C29_Witness ==
    /\ ParDone
    /\ Cardinality(DOMAIN geo.par.chunks) > 1
    /\ geo.par.positions = Sequential
    /\ geo.par.positions # geo.par.before

(* ------------------------------------------------------------------ *)
(* Properties of eyedropper_driver.cc                                  *)
(* ------------------------------------------------------------------ *)

\* The last callback was driverdropper_modal on the event of modal keymap value val.
ModalMapped(val) ==
    /\ dropper.handler = "modal"
    /\ dropper.event = [type |-> "EVT_MODAL_MAP", val |-> val]

\* A property button is under the cursor and both paths resolve.
CanCreateDriver ==
    ~dropper.under.is_null /\ dropper.under.target_path /\ dropper.w.dst_path

\* C35: on the confirm event the status is OPERATOR_FINISHED exactly when the
\* destination button had UI_BUT_UNDO at initialization, OPERATOR_CANCELLED
\* otherwise, whether or not a driver was created; the sample step asks for a
\* driver only with a property button under the cursor and both paths resolved,
\* and sends updates only when the creation reported success.
C35_ConfirmStatusFromUndoFlag ==
    ModalMapped("EYE_MODAL_SAMPLE_CONFIRM") =>
        /\ dropper.w.ret = IF "UI_BUT_UNDO" \in dropper.w.but.flag
                           THEN "OPERATOR_FINISHED" ELSE "OPERATOR_CANCELLED"
        /\ dropper.w.add_calls # dropper.pre.add_calls <=> CanCreateDriver
        /\ dropper.w.drivers # dropper.pre.drivers <=> (CanCreateDriver /\ dropper.success)
        /\ dropper.w.updates # dropper.pre.updates <=> (CanCreateDriver /\ dropper.success)

\* C35 witness: a confirm created a driver and sent the updates, on a session
\* whose button had no undo flag, and returned OPERATOR_CANCELLED.
C35_Witness ==
    /\ ModalMapped("EYE_MODAL_SAMPLE_CONFIRM")
    /\ dropper.w.drivers = 1 /\ dropper.w.updates = 1
    /\ "UI_BUT_UNDO" \notin dropper.w.but.flag
    /\ dropper.w.ret = "OPERATOR_CANCELLED"

\* The last callback was driverdropper_modal on a cancel or confirm event.
ModalEnded == ModalMapped("EYE_MODAL_CANCEL") \/ ModalMapped("EYE_MODAL_SAMPLE_CONFIRM")

\* C36: a modal event other than cancel and confirm leaves the session as it was
\* and returns OPERATOR_RUNNING_MODAL; the first cancel or confirm ends it:
\* op->customdata is null, the DriverDropper was freed exactly once, the cursor
\* shown before the session is shown again, no handler is left, and is_undo was
\* read while the DriverDropper was allocated.
C36_ModalEndsSessionOnce ==
    /\ (dropper.handler = "modal" /\ ~ModalEnded) =>
          /\ dropper.w = dropper.pre
          /\ dropper.w.ret = "OPERATOR_RUNNING_MODAL"
          /\ dropper.w.modal_handler /\ Live(dropper.w)
    /\ ModalEnded =>
          /\ dropper.w.ret \in {"OPERATOR_FINISHED", "OPERATOR_CANCELLED"}
          /\ dropper.w.customdata = "nullptr"
          /\ dropper.w.news = 1 /\ dropper.w.deletes = 1
          /\ dropper.w.win = [cursor |-> dropper.pre.win.lastcursor,
                              lastcursor |-> "NONE", modalcursor |-> "NONE"]
          /\ dropper.pre.win.cursor = "WM_CURSOR_EYEDROPPER"
          /\ ~dropper.w.modal_handler
          /\ dropper.w.read_live

\* C36 witness: a confirm ended a session that two other events had left
\* running, one of them a modal keymap event.
C36_Witness ==
    /\ ModalMapped("EYE_MODAL_SAMPLE_CONFIRM")
    /\ dropper.events = 3
    /\ dropper.w.deletes = 1 /\ dropper.w.win.cursor = "WM_CURSOR_EDIT"

\* driverdropper_init cannot succeed on the active button: there is no active
\* property, it is not driver-editable, or the button is driven already.
CannotInit(but) ==
    \/ but.is_null \/ ~but.rnapoin_data \/ ~but.rnaprop
    \/ ~but.driver_editable
    \/ "UI_BUT_DRIVEN" \in but.flag

\* C37: when the eyedropper cannot initialize, driverdropper_invoke and
\* driverdropper_exec return OPERATOR_CANCELLED with op->customdata null, no
\* modal handler, the cursor and the active button as they were and no
\* DriverDropper allocated.
C37_FailedInitLeavesNothing ==
    (dropper.handler \in {"invoke", "exec"} /\ CannotInit(dropper.w.but)) =>
        /\ dropper.w.ret = "OPERATOR_CANCELLED"
        /\ dropper.w.customdata = "nullptr"
        /\ ~dropper.w.modal_handler
        /\ dropper.w.win = dropper.pre.win
        /\ dropper.w.active_but = dropper.pre.active_but
        /\ dropper.w.news = dropper.w.deletes

\* C37 witness: driverdropper_invoke was cancelled on a driver-editable
\* property whose button is driven.
C37_Witness ==
    /\ dropper.handler = "invoke"
    /\ ~dropper.w.but.is_null /\ dropper.w.but.driver_editable
    /\ "UI_BUT_DRIVEN" \in dropper.w.but.flag
    /\ dropper.w.ret = "OPERATOR_CANCELLED"
    /\ dropper.w.news = 1

====
